---- MODULE Spec2Model ----
(***************************************************************************)
(* Momentum-scalp bot for 15-minute Up/Down markets: the live loop         *)
(* (bot.py bot_loop, strategy.py, execution.py PaperExecutor) and the      *)
(* backtest exit simulator (scripts/backtest_scalp.py simulate_exit).      *)
(*                                                                         *)
(* Units.  Prices are integer cents (0.62 -> 62, the Down price is         *)
(* 100 - price_up).  Time is in tenths of a minute (6 s): a period of      *)
(* 900 s is 150, minute 14.0 is 140, the 0.3 minute dead-zone is 3.        *)
(* Dollar P&L is fixed point, PnlScale units per dollar.                   *)
(***************************************************************************)
EXTENDS Integers, Sequences, FiniteSets, TLC

VARIABLES
    state,                \* feeds.State as read by bot_loop
    now,                  \* time.time()
    strat_state,          \* strategy.StrategyState
    bot,                  \* execution.BotState (executor.bot)
    last_period_ts,       \* bot_loop local
    last_snapshot_minute, \* bot_loop local
    signals_since_reset,  \* history: signals evaluate returned since the last reset
    tick_log,             \* history: what the last loop iteration did
    sim,                  \* arguments of one simulate_exit call
    sim_out,              \* its return value
    live_i,               \* observations of sim.prices_up replayed through the live loop
    executor,             \* main: "paper" (PaperExecutor) or "live" (LiveExecutor)
    restarted,            \* locals of the bot_loop tasks main created on restarts
    bt,                   \* arguments of one entry evaluation, backtest and live
    bt_out,               \* what strat_momentum_scalp and evaluate returned for it
    stat_trades,          \* the trade list handed to compute_stats
    stats,                \* its return value
    stability,            \* the split-half verdicts of main for that list
    all_results,          \* main: one {name, family, stats} per configuration run
    qualified,            \* main: the ranking
    output,               \* main: the "results" of the JSON report
    step,                 \* main: where the backtest is
    configs,              \* build_configs: the list built so far
    oracle_results,       \* fetch_oracle_periods: its all_results list
    periods,              \* main: the resolved periods
    period_data,          \* main: the periods with price data
    range_prices,         \* the price history strat_range_trader is given
    range_call,           \* one call of strat_range_trader and its result
    strat_prices,         \* the price history another strategy is given
    strat_call,           \* one call of that strategy and its result
    lookup                \* one call of get_price_at and its result

vars == <<state, now, strat_state, bot, last_period_ts, last_snapshot_minute,
          signals_since_reset, tick_log, sim, sim_out, live_i,
          executor, restarted, bt, bt_out, stat_trades, stats, stability,
          all_results, qualified, output, step, configs,
          oracle_results, periods, period_data, range_prices, range_call,
          strat_prices, strat_call, lookup>>

botvars == <<strat_state, bot, last_period_ts, last_snapshot_minute,
            signals_since_reset, tick_log>>
simvars == <<sim, sim_out, live_i>>
mainvars == <<executor, restarted>>
entryvars == <<bt, bt_out>>
statvars == <<stat_trades, stats>>
reportvars == <<stability, all_results, qualified, output, step, configs>>
runvars == <<oracle_results, periods, period_data, range_prices, range_call,
             strat_prices, strat_call, lookup>>

----------------------------------------------------------------------------
(* Bounds of the model *)

Horizon == 7
MaxLen == 2
MainHorizon == 4
MaxSeries == 3
MaxTrades == 5
MaxHistory == 27
MaxConfigs == 2
MaxPeriods == 3
MaxSamples == 5
MaxRestarts == 1

----------------------------------------------------------------------------
(* Program constants *)

PERIOD_SECONDS == 150
ENTRY_MINUTE == 50
LOOKBACK_MINUTE == 30
THRESHOLD == 60
MIN_SNAPSHOT_MINUTE == 25
MAX_SIGNAL_MINUTE == 60
TAKE_PROFIT == 15
STOP_LOSS == 5
DEADLINE_MINUTE == 140
ENTRY_WINDOW_LEAD == 5
TOLERANCE == 10
MAX_SNAPSHOT_MINUTE == 140
SNAPSHOT_SPACING == 4
PM_SANE_LOW == 2
PM_SANE_HIGH == 98
SIZE_USD == 10
DEAD_ZONE == 3
BT_TOLERANCE == 15
MIN_FAMILY_N == 15
MIN_RANK_N == 20
REPORT_LIMIT == 50
RANGE_DEADLINE == 120
SR_MIN_RANGE == 5
SR_DEADLINE == 120
MAX_WALK_MINUTE == 150
EOD_MINUTE == 145
SETTLE_MINUTE == 150
ONE == 100
PnlScale == ONE * ONE
Inf == 1000000

\* Python None for a float | None field (pm_up, exit_price) and for pnl
None == -1
NonePnl == -Inf

NoSignal ==
    [signal |-> "none", side |-> "None", entry_price |-> 0,
     entry_minute |-> 0, period_ts |-> 0]

Abs(x) == IF x < 0 THEN -x ELSE x

----------------------------------------------------------------------------
(* strategy.py *)

\* StrategyState.reset
reset(period_ts) ==
    [period_ts |-> period_ts, snapshots |-> <<>>,
     signal_fired |-> FALSE, last_signal |-> NoSignal]

\* StrategyState.add_snapshot
add_snapshot(S, minute, price_up) ==
    [S EXCEPT !.snapshots = Append(@, [minute |-> minute, price_up |-> price_up])]

\* The loop of StrategyState.get_price_at from snapshot i on
RECURSIVE get_price_walk(_, _, _, _, _, _)
get_price_walk(snapshots, i, target_minute, tolerance, best, best_dist) ==
    IF i > Len(snapshots) THEN best
    ELSE LET dist == Abs(snapshots[i].minute - target_minute)
         IN  IF dist < best_dist /\ dist <= tolerance
             THEN get_price_walk(snapshots, i + 1, target_minute, tolerance,
                                 snapshots[i].price_up, dist)
             ELSE get_price_walk(snapshots, i + 1, target_minute, tolerance,
                                 best, best_dist)

\* get_price_at keeping the last of the snapshots at minimal distance
get_price_at_last_wins(S, target_minute, tolerance) ==
    LET within == {k \in 1..Len(S.snapshots) :
                      Abs(S.snapshots[k].minute - target_minute) <= tolerance}
        nearest == {k \in within : \A j \in within :
                      Abs(S.snapshots[k].minute - target_minute)
                          <= Abs(S.snapshots[j].minute - target_minute)}
    IN  IF within = {} THEN None
        ELSE S.snapshots[CHOOSE k \in nearest : \A j \in nearest : j <= k].price_up

\* StrategyState.get_price_at
get_price_at(S, target_minute, tolerance) ==
    get_price_walk(S.snapshots, 1, target_minute, tolerance, None, Inf)

\* A window test that never closes the window
in_signal_window_never_closed(current_minute) ==
    ~ (current_minute < ENTRY_MINUTE - ENTRY_WINDOW_LEAD)

\* The evaluation window test of evaluate
in_signal_window(current_minute) ==
    ~ (current_minute < ENTRY_MINUTE - ENTRY_WINDOW_LEAD
       \/ current_minute > MAX_SIGNAL_MINUTE)

\* evaluate without the signal_fired assignment
evaluate_keeps_firing(S, t) ==
    LET p3 == get_price_at(S, LOOKBACK_MINUTE, TOLERANCE)
        p5 == get_price_at(S, ENTRY_MINUTE, TOLERANCE)
        current_minute == t - S.period_ts
        price_dn_5 == ONE - p5
        none == [state |-> S, sig |-> NoSignal]
        fire(side, price) ==
            LET sg == [signal |-> "momentum_scalp", side |-> side,
                       entry_price |-> price, entry_minute |-> current_minute,
                       period_ts |-> S.period_ts]
            IN  [state |-> [S EXCEPT !.last_signal = sg], sig |-> sg]
    IN  IF S.signal_fired THEN none
        ELSE IF p5 = None THEN none
        ELSE IF ~ in_signal_window(current_minute) THEN none
        ELSE IF p3 # None
             THEN IF p5 >= THRESHOLD /\ p5 > p3 THEN fire("Up", p5)
                  ELSE IF price_dn_5 >= THRESHOLD /\ p5 < p3 THEN fire("Down", price_dn_5)
                  ELSE none
             ELSE none

\* strategy.evaluate: the state after the call and the returned signal
evaluate(S, t) ==
    LET p3 == get_price_at(S, LOOKBACK_MINUTE, TOLERANCE)
        p5 == get_price_at(S, ENTRY_MINUTE, TOLERANCE)
        current_minute == t - S.period_ts
        price_dn_5 == ONE - p5
        none == [state |-> S, sig |-> NoSignal]
        fire(side, price) ==
            LET sg == [signal |-> "momentum_scalp", side |-> side,
                       entry_price |-> price, entry_minute |-> current_minute,
                       period_ts |-> S.period_ts]
            IN  [state |-> [S EXCEPT !.signal_fired = TRUE, !.last_signal = sg],
                 sig |-> sg]
    IN  IF S.signal_fired THEN none
        ELSE IF p5 = None THEN none
        ELSE IF ~ in_signal_window(current_minute) THEN none
        ELSE IF p3 # None
             THEN IF p5 >= THRESHOLD /\ p5 > p3 THEN fire("Up", p5)
                  ELSE IF price_dn_5 >= THRESHOLD /\ p5 < p3 THEN fire("Down", price_dn_5)
                  ELSE none
             ELSE none

\* The price of the held side
side_price(side, price_up) ==
    IF side = "Up" THEN price_up ELSE ONE - price_up

\* check_exit without the stop-loss test
exit_decision_no_stop(current_side_price, entry_price, current_minute) ==
    IF current_side_price >= entry_price + TAKE_PROFIT THEN "tp"
    ELSE IF current_minute >= DEADLINE_MINUTE THEN "deadline"
    ELSE "none"

\* The ordered tests of check_exit
exit_decision(current_side_price, entry_price, current_minute) ==
    IF current_side_price >= entry_price + TAKE_PROFIT THEN "tp"
    ELSE IF current_side_price <= entry_price - STOP_LOSS THEN "sl"
    ELSE IF current_minute >= DEADLINE_MINUTE THEN "deadline"
    ELSE "none"

\* strategy.check_exit
check_exit(S, current_price_up, t) ==
    IF S.last_signal = NoSignal THEN "none"
    ELSE exit_decision(side_price(S.last_signal.side, current_price_up),
                       S.last_signal.entry_price, t - S.period_ts)

----------------------------------------------------------------------------
(* execution.py: BotState and PaperExecutor *)

BotInit ==
    [trades |-> <<>>, total_pnl |-> 0, wins |-> 0, losses |-> 0,
     current_order_id |-> "None", current_side |-> "None",
     current_token_id |-> "None"]

\* BotState.record_trade
record_trade(B, rec) == [B EXCEPT !.trades = Append(@, rec)]

\* record_outcome that counts every outcome as a win
record_outcome_counts_win(B, won, pnl, exit_type, exit_price) ==
    LET n == Len(B.trades)
        tr == IF n > 0
              THEN [B.trades EXCEPT ![n].outcome = IF won THEN "won" ELSE "lost",
                                    ![n].pnl = pnl,
                                    ![n].exit_type = exit_type,
                                    ![n].exit_price = exit_price]
              ELSE B.trades
    IN  [B EXCEPT !.trades = tr,
                  !.total_pnl = @ + pnl,
                  !.wins = @ + 1]

\* BotState.record_outcome
record_outcome(B, won, pnl, exit_type, exit_price) ==
    LET n == Len(B.trades)
        tr == IF n > 0
              THEN [B.trades EXCEPT ![n].outcome = IF won THEN "won" ELSE "lost",
                                    ![n].pnl = pnl,
                                    ![n].exit_type = exit_type,
                                    ![n].exit_price = exit_price]
              ELSE B.trades
    IN  [B EXCEPT !.trades = tr,
                  !.total_pnl = @ + pnl,
                  !.wins = IF won THEN @ + 1 ELSE @,
                  !.losses = IF won THEN @ ELSE @ + 1]

\* clear_position that forgets the order and the token but not the side
clear_position_keeps_side(B) ==
    [B EXCEPT !.current_order_id = "None", !.current_token_id = "None"]

\* BotState.clear_position
clear_position(B) ==
    [B EXCEPT !.current_order_id = "None", !.current_side = "None",
              !.current_token_id = "None"]

\* shares * (price - entry) with shares = size_usd / entry, in PnlScale units
dollar_pnl(entry, price) == (SIZE_USD * PnlScale * (price - entry)) \div entry

\* execute that opens the position without recording the trade
execute_without_record(B, signal, up_token_id, dn_token_id) ==
    [B EXCEPT !.current_side = signal.side,
              !.current_token_id =
                  IF signal.side = "Up" THEN up_token_id ELSE dn_token_id]

\* PaperExecutor.execute
execute(B, signal, up_token_id, dn_token_id) ==
    LET token_id == IF signal.side = "Up" THEN up_token_id ELSE dn_token_id
        rec == [period_ts |-> signal.period_ts, signal_type |-> signal.signal,
                side |-> signal.side, entry_price |-> signal.entry_price,
                entry_minute |-> signal.entry_minute, size_usd |-> SIZE_USD,
                order_id |-> "None", status |-> "paper",
                outcome |-> "None", exit_type |-> "None",
                exit_price |-> None, pnl |-> NonePnl]
    IN  record_trade([B EXCEPT !.current_side = signal.side,
                               !.current_token_id = token_id], rec)

\* exit_position that records the outcome and leaves the position open
exit_position_keeps_side(B, exit_type, current_price) ==
    IF B.current_side = "None" THEN B
    ELSE LET entry == IF Len(B.trades) > 0
                      THEN B.trades[Len(B.trades)].entry_price ELSE 50
             pnl == dollar_pnl(entry, current_price)
             won == pnl > 0
         IN  record_outcome(B, won, pnl, exit_type, current_price)

\* exit_position that counts a pnl of zero as a win
exit_position_zero_wins(B, exit_type, current_price) ==
    IF B.current_side = "None" THEN B
    ELSE LET entry == IF Len(B.trades) > 0
                      THEN B.trades[Len(B.trades)].entry_price ELSE 50
             pnl == dollar_pnl(entry, current_price)
             won == pnl >= 0
         IN  clear_position(record_outcome(B, won, pnl, exit_type, current_price))

\* PaperExecutor.exit_position; LiveExecutor.exit_position is the same code
exit_position(B, exit_type, current_price) ==
    IF B.current_side = "None" THEN B
    ELSE LET entry == IF Len(B.trades) > 0
                      THEN B.trades[Len(B.trades)].entry_price ELSE 50
             pnl == dollar_pnl(entry, current_price)
             won == pnl > 0
         IN  clear_position(record_outcome(B, won, pnl, exit_type, current_price))

\* PaperExecutor.settle
settle(B, outcome) ==
    IF B.current_side = "None" THEN B
    ELSE LET won == \/ (B.current_side = "Up" /\ outcome = "up")
                    \/ (B.current_side = "Down" /\ outcome = "down")
             entry == IF Len(B.trades) > 0
                      THEN B.trades[Len(B.trades)].entry_price ELSE 50
             settlement == IF won THEN ONE ELSE 0
             pnl == dollar_pnl(entry, settlement)
         IN  clear_position(record_outcome(B, won, pnl, "settlement", settlement))

\* cancel that books the cancelled position as a loss of nothing
cancel_records_loss(B) == clear_position(record_outcome(B, FALSE, 0, "cancel", 0))

\* PaperExecutor.cancel; LiveExecutor.cancel ends in the same clear_position
\* whether or not the order could be cancelled at the exchange
cancel(B) == clear_position(B)

\* LiveExecutor.execute.  order_posted: post_order returned an orderID; it is
\* FALSE when the response carries none or when the client raises.  A price
\* in whole cents is what round(entry_price, 2) returns for it.
live_execute(B, signal, up_token_id, dn_token_id, order_posted) ==
    LET token_id == IF signal.side = "Up" THEN up_token_id ELSE dn_token_id
        order_id == IF order_posted THEN "order" ELSE "None"
        rec == [period_ts |-> signal.period_ts, signal_type |-> signal.signal,
                side |-> signal.side, entry_price |-> signal.entry_price,
                entry_minute |-> signal.entry_minute, size_usd |-> SIZE_USD,
                order_id |-> order_id,
                status |-> IF order_posted THEN "posted" ELSE "failed",
                outcome |-> "None", exit_type |-> "None",
                exit_price |-> None, pnl |-> NonePnl]
    IN  record_trade([B EXCEPT !.current_side = signal.side,
                               !.current_token_id = token_id,
                               !.current_order_id =
                                   IF order_posted THEN order_id ELSE @], rec)

----------------------------------------------------------------------------
(* bot.py: one iteration of the while loop of bot_loop.  L carries the     *)
(* objects the loop mutates and its two locals; the remaining fields       *)
(* record what the iteration did.                                          *)

\* kind: the executor main built; order_posted and log_ok: what the exchange
\* and the trade log's file system answer during this iteration
LocalsOf(S, B, lpt, lsm, kind, order_posted, log_ok) ==
    [strat_state |-> S, bot |-> B, last_period_ts |-> lpt,
     last_snapshot_minute |-> lsm,
     live |-> kind = "live", order_posted |-> order_posted, log_ok |-> log_ok,
     period_changed |-> FALSE, forced |-> "none",
     exit_checked |-> FALSE, exit_type |-> "none",
     signal |-> NoSignal, executed |-> FALSE, side_at_execute |-> "None",
     raised |-> FALSE]

\* An iteration with the PaperExecutor and a writable trade log
Locals(S, B, lpt, lsm) == LocalsOf(S, B, lpt, lsm, "paper", TRUE, TRUE)

\* Period-end handling that leaves the position open
period_end_close_skipped(B, st) == B

\* Period-end handling without the cancel branch
period_end_close_priced_only(B, st) ==
    IF st.pm_up # None
    THEN exit_position(B, "deadline", side_price(B.current_side, st.pm_up))
    ELSE B

\* Period-end handling of an open position
period_end_close(B, st) ==
    IF st.pm_up # None
    THEN exit_position(B, "deadline", side_price(B.current_side, st.pm_up))
    ELSE cancel(B)

\* Period change detection that keeps the StrategyState of the old period
period_change_without_reset(L, st) ==
    IF st.period_start_ts # L.last_period_ts /\ st.period_start_ts > 0
    THEN LET open == L.last_period_ts > 0 /\ L.bot.current_side # "None"
         IN  [L EXCEPT !.bot = IF open THEN period_end_close(@, st) ELSE @,
                       !.forced = IF ~ open THEN "none"
                                  ELSE IF st.pm_up # None THEN "deadline"
                                  ELSE "cancel",
                       !.last_period_ts = st.period_start_ts,
                       !.last_snapshot_minute = -10,
                       !.period_changed = TRUE]
    ELSE L

\* Period change detection
period_change(L, st) ==
    IF st.period_start_ts # L.last_period_ts /\ st.period_start_ts > 0
    THEN LET open == L.last_period_ts > 0 /\ L.bot.current_side # "None"
         IN  [L EXCEPT !.bot = IF open THEN period_end_close(@, st) ELSE @,
                       !.forced = IF ~ open THEN "none"
                                  ELSE IF st.pm_up # None THEN "deadline"
                                  ELSE "cancel",
                       !.strat_state = reset(st.period_start_ts),
                       !.last_period_ts = st.period_start_ts,
                       !.last_snapshot_minute = -10,
                       !.period_changed = TRUE]
    ELSE L

\* 0.02 < pm_up < 0.98
pm_sane(pm_up) == PM_SANE_LOW < pm_up /\ pm_up < PM_SANE_HIGH

\* Exit check that hands the Up price to exit_position for either side
exit_check_up_price(L, st, t) ==
    IF L.bot.current_side # "None" /\ st.pm_up # None
    THEN IF pm_sane(st.pm_up)
         THEN LET exit_type == check_exit(L.strat_state, st.pm_up, t)
              IN  IF exit_type # "none"
                  THEN [L EXCEPT !.bot = exit_position(@, exit_type, st.pm_up),
                                 !.exit_checked = TRUE,
                                 !.exit_type = exit_type]
                  ELSE [L EXCEPT !.exit_checked = TRUE]
         ELSE L
    ELSE L

\* TP/SL exit check
exit_check(L, st, t) ==
    IF L.bot.current_side # "None" /\ st.pm_up # None
    THEN IF pm_sane(st.pm_up)
         THEN LET exit_type == check_exit(L.strat_state, st.pm_up, t)
              IN  IF exit_type # "none"
                  THEN [L EXCEPT !.bot = exit_position(@, exit_type,
                                            side_price(L.bot.current_side, st.pm_up)),
                                 !.exit_checked = TRUE,
                                 !.exit_type = exit_type]
                  ELSE [L EXCEPT !.exit_checked = TRUE]
         ELSE L
    ELSE L

\* Snapshot collection
snapshot_collection(L, st, t) ==
    IF st.period_start_ts > 0 /\ st.pm_up # None
    THEN LET current_minute == t - st.period_start_ts
         IN  IF /\ current_minute >= MIN_SNAPSHOT_MINUTE
                /\ current_minute <= MAX_SNAPSHOT_MINUTE
                /\ current_minute - L.last_snapshot_minute >= SNAPSHOT_SPACING
                /\ pm_sane(st.pm_up)
             THEN [L EXCEPT !.strat_state = add_snapshot(@, current_minute, st.pm_up),
                            !.last_snapshot_minute = current_minute]
             ELSE L
    ELSE L

\* Strategy evaluation and execution of the signal
strategy_evaluation(L, st, t) ==
    IF ~ L.strat_state.signal_fired /\ st.period_start_ts > 0
    THEN LET r == evaluate(L.strat_state, t)
         IN  IF r.sig # NoSignal
             THEN IF st.pm_up_id # "None" /\ st.pm_dn_id # "None"
                  THEN [L EXCEPT !.strat_state = r.state,
                                 !.signal = r.sig,
                                 !.side_at_execute = L.bot.current_side,
                                 !.executed = TRUE,
                                 !.bot = IF L.live
                                         THEN live_execute(@, r.sig, st.pm_up_id,
                                                  st.pm_dn_id, L.order_posted)
                                         ELSE execute(@, r.sig, st.pm_up_id,
                                                      st.pm_dn_id),
                                 \* record_trade appends, then _append_log
                                 \* raises into the except of the loop
                                 !.raised = ~ L.log_ok]
                  ELSE [L EXCEPT !.strat_state = r.state, !.signal = r.sig]
             ELSE [L EXCEPT !.strat_state = r.state]
    ELSE L

\* The body of the while loop
bot_loop(L, st, t) ==
    strategy_evaluation(
        snapshot_collection(
            exit_check(
                period_change(L, st),
                st, t),
            st, t),
        st, t)

\* What the next iteration does from the current state
ThisTick ==
    bot_loop(Locals(strat_state, bot, last_period_ts, last_snapshot_minute),
             state, now)

----------------------------------------------------------------------------
(* scripts/backtest_scalp.py: simulate_exit.  A sample is [t, p]; the      *)
(* returned pnl is per share, in cents.                                    *)

\* Fell through, the settlement decided by the outcome alone
fell_through_up_wins(a) ==
    IF a.hold_to_settlement /\ a.outcome # ""
    THEN LET won == a.outcome = "up"
             settlement == IF won THEN ONE ELSE 0
         IN  [exit_type |-> "settlement", exit_price |-> settlement,
              exit_minute |-> SETTLE_MINUTE, pnl |-> settlement - a.entry_price]
    ELSE IF Len(a.prices_up) > 0
    THEN LET last_p == a.prices_up[Len(a.prices_up)].p
             pos_price == IF a.side = "Up" THEN last_p ELSE ONE - last_p
         IN  [exit_type |-> "eod", exit_price |-> pos_price,
              exit_minute |-> EOD_MINUTE, pnl |-> pos_price - a.entry_price]
    ELSE [exit_type |-> "no_data", exit_price |-> a.entry_price,
          exit_minute |-> a.entry_minute, pnl |-> 0]

\* Fell through, end of data priced at the first sample
fell_through_first_price(a) ==
    IF a.hold_to_settlement /\ a.outcome # ""
    THEN LET won == (a.side = "Up" /\ a.outcome = "up")
                    \/ (a.side = "Down" /\ a.outcome = "down")
             settlement == IF won THEN ONE ELSE 0
         IN  [exit_type |-> "settlement", exit_price |-> settlement,
              exit_minute |-> SETTLE_MINUTE, pnl |-> settlement - a.entry_price]
    ELSE IF Len(a.prices_up) > 0
    THEN LET last_p == a.prices_up[1].p
             pos_price == IF a.side = "Up" THEN last_p ELSE ONE - last_p
         IN  [exit_type |-> "eod", exit_price |-> pos_price,
              exit_minute |-> EOD_MINUTE, pnl |-> pos_price - a.entry_price]
    ELSE [exit_type |-> "no_data", exit_price |-> a.entry_price,
          exit_minute |-> a.entry_minute, pnl |-> 0]

\* "Fell through": settlement, last available price, or no data
fell_through(a) ==
    IF a.hold_to_settlement /\ a.outcome # ""
    THEN LET won == (a.side = "Up" /\ a.outcome = "up")
                    \/ (a.side = "Down" /\ a.outcome = "down")
             settlement == IF won THEN ONE ELSE 0
         IN  [exit_type |-> "settlement", exit_price |-> settlement,
              exit_minute |-> SETTLE_MINUTE, pnl |-> settlement - a.entry_price]
    ELSE IF Len(a.prices_up) > 0
    THEN LET last_p == a.prices_up[Len(a.prices_up)].p
             pos_price == IF a.side = "Up" THEN last_p ELSE ONE - last_p
         IN  [exit_type |-> "eod", exit_price |-> pos_price,
              exit_minute |-> EOD_MINUTE, pnl |-> pos_price - a.entry_price]
    ELSE [exit_type |-> "no_data", exit_price |-> a.entry_price,
          exit_minute |-> a.entry_minute, pnl |-> 0]

\* Sample checks with the stop-loss tested before the take-profit
sample_checks_sl_first(a, minute, pos_price) ==
    LET tp_target == a.entry_price + a.tp_delta
        sl_target == a.entry_price - a.sl_delta
    IN  IF pos_price <= sl_target
        THEN [exit_type |-> "sl", exit_price |-> sl_target,
              exit_minute |-> minute, pnl |-> -a.sl_delta]
        ELSE IF pos_price >= tp_target
        THEN [exit_type |-> "tp", exit_price |-> tp_target,
              exit_minute |-> minute, pnl |-> a.tp_delta]
        ELSE IF minute >= a.exit_deadline
        THEN [exit_type |-> "deadline", exit_price |-> pos_price,
              exit_minute |-> minute, pnl |-> pos_price - a.entry_price]
        ELSE [exit_type |-> "none", exit_price |-> None,
              exit_minute |-> minute, pnl |-> 0]

\* Sample checks that fill take-profit and stop-loss at the observed price
sample_checks_observed_fill(a, minute, pos_price) ==
    LET tp_target == a.entry_price + a.tp_delta
        sl_target == a.entry_price - a.sl_delta
    IN  IF pos_price >= tp_target
        THEN [exit_type |-> "tp", exit_price |-> pos_price,
              exit_minute |-> minute, pnl |-> pos_price - a.entry_price]
        ELSE IF pos_price <= sl_target
        THEN [exit_type |-> "sl", exit_price |-> pos_price,
              exit_minute |-> minute, pnl |-> pos_price - a.entry_price]
        ELSE IF minute >= a.exit_deadline
        THEN [exit_type |-> "deadline", exit_price |-> pos_price,
              exit_minute |-> minute, pnl |-> pos_price - a.entry_price]
        ELSE [exit_type |-> "none", exit_price |-> None,
              exit_minute |-> minute, pnl |-> 0]

\* Sample checks with the deadline tested strictly
sample_checks_late_deadline(a, minute, pos_price) ==
    LET tp_target == a.entry_price + a.tp_delta
        sl_target == a.entry_price - a.sl_delta
    IN  IF pos_price >= tp_target
        THEN [exit_type |-> "tp", exit_price |-> tp_target,
              exit_minute |-> minute, pnl |-> a.tp_delta]
        ELSE IF pos_price <= sl_target
        THEN [exit_type |-> "sl", exit_price |-> sl_target,
              exit_minute |-> minute, pnl |-> -a.sl_delta]
        ELSE IF minute > a.exit_deadline
        THEN [exit_type |-> "deadline", exit_price |-> pos_price,
              exit_minute |-> minute, pnl |-> pos_price - a.entry_price]
        ELSE [exit_type |-> "none", exit_price |-> None,
              exit_minute |-> minute, pnl |-> 0]

\* Sample checks with the targets clamped to [0, 1] in the tests only
sample_checks_clamped(a, minute, pos_price) ==
    LET tp_target == a.entry_price + a.tp_delta
        sl_target == a.entry_price - a.sl_delta
    IN  IF pos_price >= (IF tp_target > ONE THEN ONE ELSE tp_target)
        THEN [exit_type |-> "tp", exit_price |-> tp_target,
              exit_minute |-> minute, pnl |-> a.tp_delta]
        ELSE IF pos_price <= (IF sl_target < 0 THEN 0 ELSE sl_target)
        THEN [exit_type |-> "sl", exit_price |-> sl_target,
              exit_minute |-> minute, pnl |-> -a.sl_delta]
        ELSE IF minute >= a.exit_deadline
        THEN [exit_type |-> "deadline", exit_price |-> pos_price,
              exit_minute |-> minute, pnl |-> pos_price - a.entry_price]
        ELSE [exit_type |-> "none", exit_price |-> None,
              exit_minute |-> minute, pnl |-> 0]

\* The checks applied to one sample: an outcome, or "none" to keep walking
sample_checks(a, minute, pos_price) ==
    LET tp_target == a.entry_price + a.tp_delta
        sl_target == a.entry_price - a.sl_delta
    IN  IF pos_price >= tp_target
        THEN [exit_type |-> "tp", exit_price |-> tp_target,
              exit_minute |-> minute, pnl |-> a.tp_delta]
        ELSE IF pos_price <= sl_target
        THEN [exit_type |-> "sl", exit_price |-> sl_target,
              exit_minute |-> minute, pnl |-> -a.sl_delta]
        ELSE IF minute >= a.exit_deadline
        THEN [exit_type |-> "deadline", exit_price |-> pos_price,
              exit_minute |-> minute, pnl |-> pos_price - a.entry_price]
        ELSE [exit_type |-> "none", exit_price |-> None,
              exit_minute |-> minute, pnl |-> 0]

\* A skip test without the dead-zone after the entry
at_or_before_entry_exact(a, minute) == minute <= a.entry_minute

\* The skip test of the for loop: prices at or before entry
at_or_before_entry(a, minute) == minute <= a.entry_minute + DEAD_ZONE

\* The for loop of simulate_exit from sample i on
RECURSIVE walk_prices(_, _)
walk_prices(a, i) ==
    IF i > Len(a.prices_up) THEN fell_through(a)
    ELSE LET minute == a.prices_up[i].t - a.period_start
             pos_price == IF a.side = "Up" THEN a.prices_up[i].p
                          ELSE ONE - a.prices_up[i].p
             r == sample_checks(a, minute, pos_price)
         IN  IF at_or_before_entry(a, minute) THEN walk_prices(a, i + 1)
             ELSE IF minute > MAX_WALK_MINUTE THEN fell_through(a)
             ELSE IF r.exit_type # "none" THEN r
             ELSE walk_prices(a, i + 1)

\* simulate_exit
simulate_exit(a) == walk_prices(a, 1)

\* The loop of get_price_at_minute from sample i on: the nearest sample, the
\* first one among equally near ones, and its distance
RECURSIVE nearest_sample(_, _, _, _, _)
nearest_sample(prices, i, target_ts, best, best_dist) ==
    IF i > Len(prices) THEN [best |-> best, best_dist |-> best_dist]
    ELSE LET dist == Abs(prices[i].t - target_ts)
         IN  IF dist < best_dist
             THEN nearest_sample(prices, i + 1, target_ts, prices[i].p, dist)
             ELSE nearest_sample(prices, i + 1, target_ts, best, best_dist)

\* get_price_at_minute that returns the nearest sample however far it is
get_price_at_minute_any_distance(prices, period_start, minute) ==
    nearest_sample(prices, 1, period_start + minute, None, Inf).best

\* get_price_at_minute
get_price_at_minute(prices, period_start, minute) ==
    LET r == nearest_sample(prices, 1, period_start + minute, None, Inf)
    IN  IF r.best_dist <= BT_TOLERANCE THEN r.best ELSE None

\* strat_momentum_scalp returned None
NoTrade ==
    [traded |-> FALSE, side |-> "None", entry_price |-> 0, entry_minute |-> 0,
     outcome |-> "", exit_type |-> "none", exit_price |-> None,
     exit_minute |-> 0, pnl |-> 0]

\* strat_momentum_scalp that enters the leading side without the trend test
strat_momentum_scalp_no_trend(prices_up, period_start, outcome, params) ==
    LET p_now == get_price_at_minute(prices_up, period_start, params.entry_minute)
        p_before == get_price_at_minute(prices_up, period_start,
                                        params.entry_minute - params.lookback)
        side == IF p_now >= params.threshold THEN "Up"
                ELSE IF ONE - p_now >= params.threshold THEN "Down"
                ELSE "None"
        entry_price == IF side = "Up" THEN p_now ELSE ONE - p_now
        exit_info == simulate_exit(
            [prices_up |-> prices_up, period_start |-> period_start,
             side |-> side, entry_price |-> entry_price,
             entry_minute |-> params.entry_minute,
             tp_delta |-> params.tp_delta, sl_delta |-> params.sl_delta,
             exit_deadline |-> params.deadline,
             hold_to_settlement |-> params.hold_settlement,
             outcome |-> outcome])
    IN  IF p_now = None \/ p_before = None THEN NoTrade
        ELSE IF side = "None" THEN NoTrade
        ELSE [traded |-> TRUE, side |-> side, entry_price |-> entry_price,
              entry_minute |-> params.entry_minute, outcome |-> outcome,
              exit_type |-> exit_info.exit_type,
              exit_price |-> exit_info.exit_price,
              exit_minute |-> exit_info.exit_minute, pnl |-> exit_info.pnl]

\* strat_momentum_scalp
strat_momentum_scalp(prices_up, period_start, outcome, params) ==
    LET p_now == get_price_at_minute(prices_up, period_start, params.entry_minute)
        p_before == get_price_at_minute(prices_up, period_start,
                                        params.entry_minute - params.lookback)
        side == IF p_now >= params.threshold /\ p_now > p_before THEN "Up"
                ELSE IF ONE - p_now >= params.threshold /\ p_now < p_before
                THEN "Down"
                ELSE "None"
        entry_price == IF side = "Up" THEN p_now ELSE ONE - p_now
        exit_info == simulate_exit(
            [prices_up |-> prices_up, period_start |-> period_start,
             side |-> side, entry_price |-> entry_price,
             entry_minute |-> params.entry_minute,
             tp_delta |-> params.tp_delta, sl_delta |-> params.sl_delta,
             exit_deadline |-> params.deadline,
             hold_to_settlement |-> params.hold_settlement,
             outcome |-> outcome])
    IN  IF p_now = None \/ p_before = None THEN NoTrade
        ELSE IF side = "None" THEN NoTrade
        ELSE [traded |-> TRUE, side |-> side, entry_price |-> entry_price,
              entry_minute |-> params.entry_minute, outcome |-> outcome,
              exit_type |-> exit_info.exit_type,
              exit_price |-> exit_info.exit_price,
              exit_minute |-> exit_info.exit_minute, pnl |-> exit_info.pnl]

\* sum(seq[i:]) of a list of numbers
RECURSIVE SumFrom(_, _)
SumFrom(seq, i) == IF i > Len(seq) THEN 0 ELSE seq[i] + SumFrom(seq, i + 1)

\* A float quotient, kept as numerator over a positive denominator
Quot(num, den) == [num |-> num, den |-> den]
PF_INF == Quot(1, 0)

\* The square root of a quotient, kept as the quotient under the root
Sqrt(q) == [sqrt_of |-> q]

\* statistics.pstdev(pnls): the root of sum((p - mean)^2) / n
pstdev(pnls) ==
    LET n == Len(pnls)
        s == SumFrom(pnls, 1)
        q == SumFrom([k \in 1..n |-> pnls[k] * pnls[k]], 1)
    IN  Sqrt(Quot(n * q - s * s, n * n))

\* statistics.stdev(pnls): the root of sum((p - mean)^2) / (n - 1), where
\* sum((p - mean)^2) = (n * sum(p^2) - sum(p)^2) / n
stdev(pnls) ==
    LET n == Len(pnls)
        s == SumFrom(pnls, 1)
        q == SumFrom([k \in 1..n |-> pnls[k] * pnls[k]], 1)
    IN  Sqrt(Quot(n * q - s * s, n * (n - 1)))

\* std_pnl with statistics.stdev called on a single value too
std_pnl_unguarded(pnls) == stdev(pnls)

\* std_pnl = statistics.stdev(pnls) if n > 1 else 0
std_pnl(pnls) == IF Len(pnls) > 1 THEN stdev(pnls) ELSE Sqrt(Quot(0, 1))

\* t_stat = (mean_pnl / (std_pnl / math.sqrt(n))) if std_pnl > 0 else 0, kept
\* as its sign and its square mean_pnl^2 * n / std_pnl^2, in which the n of
\* mean_pnl = sum / n cancels against std_pnl^2 = v / d
t_stat_of(pnls, std) ==
    LET n == Len(pnls)
        s == SumFrom(pnls, 1)
        v == std.sqrt_of.num
        d == std.sqrt_of.den
    IN  IF v > 0
        THEN [sign |-> IF s > 0 THEN 1 ELSE IF s < 0 THEN -1 ELSE 0,
              sqrt_of |-> Quot(s * s * (d \div n), v)]
        ELSE [sign |-> 0, sqrt_of |-> Quot(0, 1)]

\* compute_stats that counts a zero P&L as a win
compute_stats_zero_wins(trades) ==
    IF Len(trades) = 0 THEN [n |-> 0]
    ELSE LET n == Len(trades)
             pos(t) == IF t.pnl > 0 THEN t.pnl ELSE 0
             neg(t) == IF t.pnl < 0 THEN t.pnl ELSE 0
             nonpos(t) == IF t.pnl <= 0 THEN t.pnl ELSE 0
             one_if_win(t) == IF t.pnl >= 0 THEN 1 ELSE 0
             pnl_of(t) == t.pnl
             entry_of(t) == t.entry_price
             wins == SumFrom([k \in 1..n |-> one_if_win(trades[k])], 1)
             gross_win == SumFrom([k \in 1..n |-> pos(trades[k])], 1)
             gross_loss == Abs(SumFrom([k \in 1..n |-> neg(trades[k])], 1))
         IN  [n |-> n, wins |-> wins, wr |-> Quot(wins, n),
              mean_pnl |-> Quot(SumFrom([k \in 1..n |-> pnl_of(trades[k])], 1), n),
              std |-> std_pnl([k \in 1..n |-> pnl_of(trades[k])]),
              t_stat |-> t_stat_of([k \in 1..n |-> pnl_of(trades[k])],
                                   std_pnl([k \in 1..n |-> pnl_of(trades[k])])),
              pf |-> IF gross_loss > 0 THEN Quot(gross_win, gross_loss)
                     ELSE PF_INF,
              avg_entry |-> Quot(SumFrom([k \in 1..n |-> entry_of(trades[k])], 1), n),
              avg_win |-> IF wins > 0 THEN Quot(gross_win, wins) ELSE Quot(0, 1),
              avg_loss |-> IF n - wins > 0
                           THEN Quot(SumFrom([k \in 1..n |-> nonpos(trades[k])], 1), n - wins)
                           ELSE Quot(0, 1),
              total_pnl |-> SumFrom([k \in 1..n |-> pnl_of(trades[k])], 1),
              exit_types |->
                  [e \in {trades[i].exit_type : i \in 1..n} |->
                      Cardinality({i \in 1..n : trades[i].exit_type = e})]]

\* compute_stats
compute_stats(trades) ==
    IF Len(trades) = 0 THEN [n |-> 0]
    ELSE LET n == Len(trades)
             pos(t) == IF t.pnl > 0 THEN t.pnl ELSE 0
             neg(t) == IF t.pnl < 0 THEN t.pnl ELSE 0
             nonpos(t) == IF t.pnl <= 0 THEN t.pnl ELSE 0
             one_if_win(t) == IF t.pnl > 0 THEN 1 ELSE 0
             pnl_of(t) == t.pnl
             entry_of(t) == t.entry_price
             wins == SumFrom([k \in 1..n |-> one_if_win(trades[k])], 1)
             gross_win == SumFrom([k \in 1..n |-> pos(trades[k])], 1)
             gross_loss == Abs(SumFrom([k \in 1..n |-> neg(trades[k])], 1))
         IN  [n |-> n, wins |-> wins, wr |-> Quot(wins, n),
              mean_pnl |-> Quot(SumFrom([k \in 1..n |-> pnl_of(trades[k])], 1), n),
              std |-> std_pnl([k \in 1..n |-> pnl_of(trades[k])]),
              t_stat |-> t_stat_of([k \in 1..n |-> pnl_of(trades[k])],
                                   std_pnl([k \in 1..n |-> pnl_of(trades[k])])),
              pf |-> IF gross_loss > 0 THEN Quot(gross_win, gross_loss)
                     ELSE PF_INF,
              avg_entry |-> Quot(SumFrom([k \in 1..n |-> entry_of(trades[k])], 1), n),
              avg_win |-> IF wins > 0 THEN Quot(gross_win, wins) ELSE Quot(0, 1),
              avg_loss |-> IF n - wins > 0
                           THEN Quot(SumFrom([k \in 1..n |-> nonpos(trades[k])], 1), n - wins)
                           ELSE Quot(0, 1),
              total_pnl |-> SumFrom([k \in 1..n |-> pnl_of(trades[k])], 1),
              exit_types |->
                  [e \in {trades[i].exit_type : i \in 1..n} |->
                      Cardinality({i \in 1..n : trades[i].exit_type = e})]]

\* statistics.mean(h) if h else 0
mean_or_zero(h) == IF Len(h) > 0 THEN Quot(SumFrom(h, 1), Len(h)) ELSE Quot(0, 1)

\* x > 0 for a quotient x
Positive(x) == x.num > 0

\* The split-half check that accepts a zero mean
split_half_top15_nonneg(trades) ==
    LET mid == Len(trades) \div 2
        h1 == [i \in 1..mid |-> trades[i].pnl]
        h2 == [i \in 1..(Len(trades) - mid) |-> trades[mid + i].pnl]
        h1m == mean_or_zero(h1)
        h2m == mean_or_zero(h2)
    IN  [h1 |-> h1, h2 |-> h2, h1m |-> h1m, h2m |-> h2m,
         ok |-> h1m.num >= 0 /\ h2m.num >= 0]

\* main, step 7: the split-half check of the top-15 table
split_half_top15(trades) ==
    LET mid == Len(trades) \div 2
        h1 == [i \in 1..mid |-> trades[i].pnl]
        h2 == [i \in 1..(Len(trades) - mid) |-> trades[mid + i].pnl]
        h1m == mean_or_zero(h1)
        h2m == mean_or_zero(h2)
    IN  [h1 |-> h1, h2 |-> h2, h1m |-> h1m, h2m |-> h2m,
         ok |-> Positive(h1m) /\ Positive(h2m)]

\* main, step 8: the split-half check of the family summary
split_half_family(trades) ==
    LET mid == Len(trades) \div 2
        first == [i \in 1..mid |-> trades[i].pnl]
        second == [i \in 1..(Len(trades) - mid) |-> trades[mid + i].pnl]
        h1 == IF mid > 0 THEN Quot(SumFrom(first, 1), Len(first)) ELSE Quot(0, 1)
        h2 == IF mid > 0 THEN Quot(SumFrom(second, 1), Len(second)) ELSE Quot(0, 1)
    IN  [h1 |-> h1, h2 |-> h2, stable |-> Positive(h1) /\ Positive(h2)]

\* The ranking that keeps every configuration
rank_unfiltered(results) ==
    LET q == results
        before(i, j) ==
            \/ q[j].stats.t_stat > q[i].stats.t_stat
            \/ q[j].stats.t_stat = q[i].stats.t_stat /\ j < i
        place == [i \in 1..Len(q) |->
                     1 + Cardinality({j \in 1..Len(q) : before(i, j)})]
    IN  [k \in 1..Len(q) |-> q[CHOOSE i \in 1..Len(q) : place[i] = k]]

\* main, step 6: qualified = the results with n >= 20, then the stable
\* list.sort by -t_stat
rank(results) ==
    LET q == SelectSeq(results, LAMBDA r : r.stats.n >= MIN_RANK_N)
        before(i, j) ==
            \/ q[j].stats.t_stat > q[i].stats.t_stat
            \/ q[j].stats.t_stat = q[i].stats.t_stat /\ j < i
        place == [i \in 1..Len(q) |->
                     1 + Cardinality({j \in 1..Len(q) : before(i, j)})]
    IN  [k \in 1..Len(q) |-> q[CHOOSE i \in 1..Len(q) : place[i] = k]]

\* The report that lists the configurations in the order they were run
report_results_unranked(results, ranking) ==
    LET top == SubSeq(results, 1, IF Len(results) < REPORT_LIMIT
                                  THEN Len(results) ELSE REPORT_LIMIT)
    IN  [k \in 1..Len(top) |->
            [name |-> top[k].name, family |-> top[k].family,
             stats |-> top[k].stats]]

\* main, step 10: the "results" of the report, from qualified[:50]
report_results(results, ranking) ==
    LET top == SubSeq(ranking, 1, IF Len(ranking) < REPORT_LIMIT
                                  THEN Len(ranking) ELSE REPORT_LIMIT)
    IN  [k \in 1..Len(top) |->
            [name |-> top[k].name, family |-> top[k].family,
             stats |-> top[k].stats]]

----------------------------------------------------------------------------
(* scripts/backtest_scalp.py: build_configs.  Each family is a nest of     *)
(* for loops over lists of values; minutes are in tenths, prices in cents. *)

\* The number of combinations of the loops inside loop i
RECURSIVE Stride(_, _)
Stride(axes, i) ==
    IF i >= Len(axes) THEN 1 ELSE Len(axes[i + 1]) * Stride(axes, i + 1)

\* The values of the loop variables in the k-th pass through the innermost
\* body, k counted from 0
LoopValues(axes, k) ==
    [i \in 1..Len(axes) |->
        axes[i][((k \div Stride(axes, i)) % Len(axes[i])) + 1]]

\* All passes, in order
Passes(axes) == [k \in 1..Stride(axes, 0) |-> LoopValues(axes, k - 1)]

\* f"{x}" of a whole number of minutes
fmt_int(m) == ToString(m \div 10)

\* f"{x:.2f}"
fmt_2f(c) ==
    LET hundredths == (c * 100) \div ONE
    IN  ToString(hundredths \div 100) \o "." \o ToString((hundredths % 100) \div 10)
            \o ToString(hundredths % 10)

\* f"{x:.0%}"
fmt_pct(c) == ToString((c * 100 + ONE \div 2) \div ONE) \o "%"

\* A momentum name that leaves the stop-loss out
momentum_config_without_sl(v) ==
    [name |-> "mom_m" \o fmt_int(v[1]) \o "_lb" \o fmt_int(v[2]) \o "_"
                  \o fmt_pct(v[3]) \o "_tp" \o fmt_2f(v[4]),
     family |-> "momentum_scalp",
     params |-> [entry_minute |-> v[1], lookback |-> v[2], threshold |-> v[3],
                 tp_delta |-> v[4], sl_delta |-> v[5]]]

\* 1. momentum scalp
momentum_config(v) ==
    [name |-> "mom_m" \o fmt_int(v[1]) \o "_lb" \o fmt_int(v[2]) \o "_"
                  \o fmt_pct(v[3]) \o "_tp" \o fmt_2f(v[4])
                  \o "_sl" \o fmt_2f(v[5]),
     family |-> "momentum_scalp",
     params |-> [entry_minute |-> v[1], lookback |-> v[2], threshold |-> v[3],
                 tp_delta |-> v[4], sl_delta |-> v[5]]]

MomentumAxes ==
    << <<50, 70>>, <<20, 30>>, <<55, 60, 65>>, <<5, 8, 10, 15>>, <<5, 8, 10>> >>

\* 2. early cheap scalp
early_config(v) ==
    [name |-> "early_w" \o fmt_int(v[1]) \o "_" \o fmt_pct(v[2])
                  \o "_tp" \o fmt_2f(v[3]) \o "_sl" \o fmt_2f(v[4]),
     family |-> "early_cheap",
     params |-> [window_end |-> v[1], max_entry |-> v[2],
                 tp_delta |-> v[3], sl_delta |-> v[4]]]

EarlyAxes == << <<20, 30, 40>>, <<35, 40, 45>>, <<5, 8, 10, 15>>, <<3, 5, 8>> >>

\* 3. mean reversion scalp
meanrev_config(v) ==
    [name |-> "meanrev_o" \o fmt_int(v[1]) \o "_lb" \o fmt_int(v[2])
                  \o "_mv" \o fmt_2f(v[3]) \o "_" \o fmt_pct(v[4])
                  \o "_tp" \o fmt_2f(v[5]) \o "_sl" \o fmt_2f(v[6]),
     family |-> "mean_reversion",
     params |-> [obs_end |-> v[1], lookback |-> v[2], min_move |-> v[3],
                 max_entry |-> v[4], tp_delta |-> v[5], sl_delta |-> v[6]]]

MeanRevAxes ==
    << <<50, 70, 90>>, <<20, 30, 40>>, <<8, 10, 15>>, <<25, 30, 35, 40>>,
       <<5, 8, 10>>, <<3, 5, 8>> >>

\* 4. volatility spike scalp; int(hold) is 1 or 0
volspike_config(v) ==
    [name |-> "volspike_w" \o fmt_int(v[1]) \o "_" \o fmt_pct(v[2])
                  \o "_r" \o fmt_2f(v[3]) \o "_tp" \o fmt_2f(v[4])
                  \o "_h" \o (IF v[5] THEN "1" ELSE "0"),
     family |-> "vol_spike",
     params |-> [entry_window |-> v[1], max_entry |-> v[2], min_range |-> v[3],
                 tp_delta |-> v[4], hold_settlement |-> v[5]]]

VolSpikeAxes ==
    << <<30, 50, 70>>, <<10, 15, 20>>, <<5, 10, 15>>, <<15, 25, 40, 60>>,
       <<TRUE, FALSE>> >>

\* 5. range-bound trader; passes with max_r <= min_r are skipped
range_config(v) ==
    [name |-> "range_o" \o fmt_int(v[1]) \o "_r" \o fmt_2f(v[2]) \o "-"
                  \o fmt_2f(v[3]) \o "_tp" \o fmt_2f(v[4])
                  \o "_sl" \o fmt_2f(v[5]),
     family |-> "range_bound",
     params |-> [obs_end |-> v[1], min_range |-> v[2], max_range |-> v[3],
                 tp_delta |-> v[4], sl_delta |-> v[5]]]

RangeAxes ==
    << <<40, 50, 60>>, <<5, 8, 10>>, <<15, 20, 30>>, <<5, 8, 10>>, <<3, 5>> >>

RangePasses == SelectSeq(Passes(RangeAxes), LAMBDA v : ~ (v[3] <= v[2]))

\* 6. support/resistance bounce; passes with obs_e <= obs_s are skipped
sr_config(v) ==
    [name |-> "sr_s" \o fmt_int(v[1]) \o "_e" \o fmt_int(v[2])
                  \o "_p" \o fmt_2f(v[3]) \o "_tp" \o fmt_2f(v[4])
                  \o "_sl" \o fmt_2f(v[5]),
     family |-> "support_resistance",
     params |-> [obs_start |-> v[1], obs_end |-> v[2], proximity |-> v[3],
                 tp_delta |-> v[4], sl_delta |-> v[5]]]

SrAxes ==
    << <<30, 40, 50>>, <<60, 70, 80, 100>>, <<2, 3, 5>>, <<5, 8, 10>>, <<3, 5>> >>

SrPasses == SelectSeq(Passes(SrAxes), LAMBDA v : ~ (v[2] <= v[1]))

\* The index in configs at which each family's loops are done
MomentumEnd == Stride(MomentumAxes, 0)
EarlyEnd == MomentumEnd + Stride(EarlyAxes, 0)
MeanRevEnd == EarlyEnd + Stride(MeanRevAxes, 0)
VolSpikeEnd == MeanRevEnd + Stride(VolSpikeAxes, 0)
RangeEnd == VolSpikeEnd + Len(RangePasses)
SrEnd == RangeEnd + Len(SrPasses)

----------------------------------------------------------------------------
(* The live system: feed tasks, the clock and bot_loop *)

\* Offsets within a period at which the scheduler runs a task
TickOffsets == <<0, 30, 50, 53, 140>>

\* The i-th instant after the start of the first period
TimeAt(i) ==
    (1 + i \div Len(TickOffsets)) * PERIOD_SECONDS
        + TickOffsets[(i % Len(TickOffsets)) + 1]

Times == {TimeAt(i) : i \in 0..Horizon}

PeriodStarts == {t \in Times : t % PERIOD_SECONDS = 0}

\* Up prices the feed reports; 2 fails the sanity filter
FeedPrices == {2, 38, 45, 62, 77}

\* feeds.State() as main creates it
StateInit(ids) ==
    [period_start_ts |-> 0, pm_up |-> None,
     pm_up_id |-> IF ids THEN "up_token" ELSE "None",
     pm_dn_id |-> IF ids THEN "dn_token" ELSE "None"]

\* strategy.StrategyState()
StrategyStateInit == reset(0)

NoLog ==
    [period_changed |-> FALSE, forced |-> "none", exit_checked |-> FALSE,
     exit_type |-> "none", signal |-> NoSignal, executed |-> FALSE,
     side_at_execute |-> "None", raised |-> FALSE]

LogOf(L) ==
    [period_changed |-> L.period_changed, forced |-> L.forced,
     exit_checked |-> L.exit_checked, exit_type |-> L.exit_type,
     signal |-> L.signal, executed |-> L.executed,
     side_at_execute |-> L.side_at_execute, raised |-> L.raised]

NoSim ==
    [prices_up |-> <<>>, period_start |-> 0, side |-> "None", entry_price |-> 0,
     entry_minute |-> 0, tp_delta |-> 0, sl_delta |-> 0, exit_deadline |-> 0,
     hold_to_settlement |-> FALSE, outcome |-> ""]

NoOut == [exit_type |-> "none", exit_price |-> None, exit_minute |-> 0, pnl |-> 0]

NoParams ==
    [entry_minute |-> 0, threshold |-> 0, lookback |-> 0, tp_delta |-> 0,
     sl_delta |-> 0, deadline |-> 0, hold_settlement |-> FALSE]

NoBt ==
    [prices_up |-> <<>>, period_start |-> 0, outcome |-> "",
     params |-> NoParams, clock |-> 0]

NoBtOut ==
    [done |-> FALSE, trade |-> NoTrade, before |-> reset(0),
     after |-> reset(0), sig |-> NoSignal]

NoStats == [n |-> -1]

\* One bot_loop task under the PaperExecutor
PaperMain == executor = "paper" /\ restarted = <<>>

\* No entry evaluation and no compute_stats call under way
NoEntry == bt = NoBt /\ bt_out = NoBtOut
NoStatsCall == stat_trades = <<>> /\ stats = NoStats

NoStability == [done |-> FALSE]

\* No report under way
\* strat_range_trader not called yet
NoRangeCall == [called |-> FALSE]

\* No other strategy called yet
NoStratCall == [called |-> FALSE, family |-> ""]

\* get_price_at not called yet
NoLookup == [called |-> FALSE]

\* main before fetch_oracle_periods is called
NoRun ==
    /\ oracle_results = <<>>
    /\ periods = <<>>
    /\ period_data = <<>>
    /\ range_prices = <<>>
    /\ range_call = NoRangeCall
    /\ strat_prices = <<>>
    /\ strat_call = NoStratCall
    /\ lookup = NoLookup

NoReport ==
    /\ stability = NoStability
    /\ all_results = <<>>
    /\ qualified = <<>>
    /\ output = <<>>
    /\ step = "run"
    /\ configs = <<>>
    /\ NoRun

Init ==
    /\ \E ids \in BOOLEAN : state = StateInit(ids)
    /\ now = PERIOD_SECONDS
    /\ strat_state = StrategyStateInit
    /\ bot = BotInit
    /\ last_period_ts = 0
    /\ last_snapshot_minute = -10
    /\ signals_since_reset = 0
    /\ tick_log = NoLog
    /\ sim = NoSim
    /\ sim_out = NoOut
    /\ live_i = 0
    /\ PaperMain
    /\ NoEntry
    /\ NoStatsCall
    /\ NoReport

\* The effect of one loop iteration on the loop's objects and locals
Apply(L) ==
    /\ strat_state' = L.strat_state
    /\ bot' = L.bot
    /\ last_period_ts' = L.last_period_ts
    /\ last_snapshot_minute' = L.last_snapshot_minute
    /\ signals_since_reset' =
          (IF L.period_changed THEN 0 ELSE signals_since_reset)
          + (IF L.signal # NoSignal THEN 1 ELSE 0)
    /\ tick_log' = LogOf(L)

\* One iteration of bot_loop
Tick ==
    /\ Apply(ThisTick)
    /\ UNCHANGED <<state, now, simvars, mainvars, entryvars, statvars, reportvars, runvars>>

\* Time passes until the scheduler next runs a task
Advance ==
    /\ \E t \in Times : t > now /\ now' = t
    /\ UNCHANGED <<state, botvars, simvars, mainvars, entryvars, statvars, reportvars, runvars>>

\* The period tracker publishes a period start
FeedPeriod ==
    /\ \E p \in PeriodStarts :
          /\ p > state.period_start_ts
          /\ p <= now
          /\ state' = [state EXCEPT !.period_start_ts = p]
    /\ UNCHANGED <<now, botvars, simvars, mainvars, entryvars, statvars, reportvars, runvars>>

\* The price feed publishes an Up price, or loses it
FeedPrice ==
    /\ \E p \in FeedPrices \cup {None} :
          /\ p # state.pm_up
          /\ state' = [state EXCEPT !.pm_up = p]
    /\ UNCHANGED <<now, botvars, simvars, mainvars, entryvars, statvars, reportvars, runvars>>

\* The token ids of the current market are found, or not
FeedTokens ==
    /\ \E ids \in BOOLEAN :
          /\ ids # (state.pm_up_id # "None")
          /\ state' = [state EXCEPT !.pm_up_id = StateInit(ids).pm_up_id,
                                    !.pm_dn_id = StateInit(ids).pm_dn_id]
    /\ UNCHANGED <<now, botvars, simvars, mainvars, entryvars, statvars, reportvars, runvars>>

Next == Tick \/ Advance \/ FeedPeriod \/ FeedPrice \/ FeedTokens

Spec == Init /\ [][Next]_vars

----------------------------------------------------------------------------
(* main: the executor is the PaperExecutor or the LiveExecutor, the trade  *)
(* log may fail to open, and when asyncio.gather raises main builds a new  *)
(* task list.  gather does not cancel the tasks that are still running,    *)
(* and bot_loop catches every Exception of its body, so the bot_loop tasks *)
(* of earlier task lists keep running next to the new one.                 *)

TimesMain == {TimeAt(i) : i \in 0..MainHorizon}

\* Up prices the feed reports: an Up entry (45 then 62) and its stop-loss
FeedPricesMain == {45, 57, 62}

\* A bot_loop task main created on a restart, before its first iteration
NewLoop(t) == [last_period_ts |-> 0, last_snapshot_minute |-> -10, created |-> t]

\* bot_loop tasks alive: bot_loop never returns and never raises
RunningBotLoops == 1 + Len(restarted)

InitMain ==
    /\ state = StateInit(TRUE)
    /\ now = PERIOD_SECONDS
    /\ strat_state = StrategyStateInit
    /\ bot = BotInit
    /\ last_period_ts = 0
    /\ last_snapshot_minute = -10
    /\ signals_since_reset = 0
    /\ tick_log = NoLog
    /\ sim = NoSim
    /\ sim_out = NoOut
    /\ live_i = 0
    /\ executor \in {"paper", "live"}
    /\ restarted = <<>>
    /\ NoEntry
    /\ NoStatsCall
    /\ NoReport

\* One iteration of the bot_loop task of the first task list
TickMain ==
    /\ \E order_posted, log_ok \in BOOLEAN :
          Apply(bot_loop(LocalsOf(strat_state, bot, last_period_ts,
                                  last_snapshot_minute, executor,
                                  order_posted, log_ok),
                         state, now))
    /\ UNCHANGED <<state, now, simvars, mainvars, entryvars, statvars, reportvars, runvars>>

\* asyncio.gather raises: main sleeps and builds a new task list
Restart ==
    /\ Len(restarted) < MaxRestarts
    /\ restarted' = Append(restarted, NewLoop(now))
    /\ UNCHANGED <<state, now, botvars, simvars, executor, entryvars, statvars, reportvars, runvars>>

\* One iteration of a bot_loop task of a later task list; its first one
\* comes after the sleeps of main and of bot_loop
TickRestarted ==
    /\ \E k \in 1..Len(restarted), order_posted, log_ok \in BOOLEAN :
          LET L == bot_loop(LocalsOf(strat_state, bot,
                                     restarted[k].last_period_ts,
                                     restarted[k].last_snapshot_minute,
                                     executor, order_posted, log_ok),
                            state, now)
          IN  /\ restarted[k].created < now
              /\ strat_state' = L.strat_state
              /\ bot' = L.bot
              /\ restarted' =
                    [restarted EXCEPT
                        ![k].last_period_ts = L.last_period_ts,
                        ![k].last_snapshot_minute = L.last_snapshot_minute]
              /\ signals_since_reset' =
                    (IF L.period_changed THEN 0 ELSE signals_since_reset)
                    + (IF L.signal # NoSignal THEN 1 ELSE 0)
              /\ tick_log' = LogOf(L)
    /\ UNCHANGED <<state, now, last_period_ts, last_snapshot_minute,
                   simvars, executor, entryvars, statvars, reportvars, runvars>>

\* Time passes until the scheduler next runs a task
AdvanceMain ==
    /\ \E t \in TimesMain : t > now /\ now' = t
    /\ UNCHANGED <<state, botvars, simvars, mainvars, entryvars, statvars, reportvars, runvars>>

\* The period tracker publishes a period start
FeedPeriodMain ==
    /\ \E p \in PeriodStarts \cap TimesMain :
          /\ p > state.period_start_ts
          /\ p <= now
          /\ state' = [state EXCEPT !.period_start_ts = p]
    /\ UNCHANGED <<now, botvars, simvars, mainvars, entryvars, statvars, reportvars, runvars>>

\* The price feed publishes an Up price
FeedPriceMain ==
    /\ \E p \in FeedPricesMain :
          /\ p # state.pm_up
          /\ state' = [state EXCEPT !.pm_up = p]
    /\ UNCHANGED <<now, botvars, simvars, mainvars, entryvars, statvars, reportvars, runvars>>

NextMain ==
    \/ TickMain \/ TickRestarted \/ Restart \/ AdvanceMain
    \/ FeedPeriodMain \/ FeedPriceMain

SpecMain == InitMain /\ [][NextMain]_vars

----------------------------------------------------------------------------
(* Backtest and live exit side by side: a position is entered by the live  *)
(* loop at minute 5, a price history of the same period is fetched and     *)
(* handed to simulate_exit, and the same observations are then delivered   *)
(* to the live loop one per iteration.                                     *)

SimPeriodStart == PERIOD_SECONDS

\* Minutes (tenths) and Up prices of the fetched samples
SimOffsets == {50, 53, 54, 140, 151}
SimPrices == {0, 2, 23, 34, 57, 62, 77, 90, 100}

\* (p3, p5) seen by the live loop at minutes 3 and 5: an Up and a Down entry
EntryPaths == {<<45, 62>>, <<45, 38>>}

\* (tp_delta, sl_delta) of the call; the last pair puts the take-profit
\* target above 1 and the stop-loss target below 0
SimDeltas == {<<TAKE_PROFIT, STOP_LOSS>>, <<0, 0>>, <<45, 70>>}

SimFeed(p) ==
    [period_start_ts |-> SimPeriodStart, pm_up |-> p,
     pm_up_id |-> "up_token", pm_dn_id |-> "dn_token"]

\* The loop after two iterations, at minute 3 with p3 and at minute 5 with p5
Entered(path) ==
    bot_loop(
        bot_loop(Locals(StrategyStateInit, BotInit, 0, -10),
                 SimFeed(path[1]), SimPeriodStart + LOOKBACK_MINUTE),
        SimFeed(path[2]), SimPeriodStart + ENTRY_MINUTE)

InitSim ==
    \E path \in EntryPaths, d \in SimDeltas, hold \in BOOLEAN, oc \in {"", "up"} :
        LET L == Entered(path)
        IN  /\ L.executed
            /\ state = SimFeed(path[2])
            /\ now = SimPeriodStart + ENTRY_MINUTE
            /\ strat_state = L.strat_state
            /\ bot = L.bot
            /\ last_period_ts = L.last_period_ts
            /\ last_snapshot_minute = L.last_snapshot_minute
            /\ signals_since_reset = 1
            /\ tick_log = LogOf(L)
            /\ sim = [prices_up |-> <<>>, period_start |-> SimPeriodStart,
                      side |-> L.signal.side,
                      entry_price |-> L.signal.entry_price,
                      entry_minute |-> L.signal.entry_minute,
                      tp_delta |-> d[1], sl_delta |-> d[2],
                      exit_deadline |-> DEADLINE_MINUTE,
                      hold_to_settlement |-> hold, outcome |-> oc]
            /\ sim_out = NoOut
            /\ live_i = 0
            /\ PaperMain
            /\ NoEntry
            /\ NoStatsCall
            /\ NoReport

\* fetch_prices_history delivers the next sample, in time order
FetchSample ==
    /\ sim_out = NoOut
    /\ Len(sim.prices_up) < MaxLen
    /\ \E o \in SimOffsets, p \in SimPrices :
          LET t == SimPeriodStart + o
          IN  /\ Len(sim.prices_up) > 0 => sim.prices_up[Len(sim.prices_up)].t <= t
              /\ sim' = [sim EXCEPT !.prices_up = Append(@, [t |-> t, p |-> p])]
    /\ UNCHANGED <<state, now, botvars, sim_out, live_i, mainvars, entryvars, statvars, reportvars, runvars>>

\* The backtest calls simulate_exit
RunSimulate ==
    /\ sim_out = NoOut
    /\ sim_out' = simulate_exit(sim)
    /\ UNCHANGED <<state, now, botvars, sim, live_i, mainvars, entryvars, statvars, reportvars, runvars>>

\* The live loop sees the next observation of the series while the position
\* is open; observations up to the entry instant precede the position
LiveTick ==
    /\ sim_out # NoOut
    /\ live_i < Len(sim.prices_up)
    /\ bot.current_side # "None"
    /\ live_i' = live_i + 1
    /\ LET o == sim.prices_up[live_i + 1]
       IN  IF o.t <= SimPeriodStart + sim.entry_minute
           THEN UNCHANGED <<state, now, botvars>>
           ELSE /\ state' = [state EXCEPT !.pm_up = o.p]
                /\ now' = o.t
                /\ Apply(bot_loop(Locals(strat_state, bot, last_period_ts,
                                         last_snapshot_minute), state', now'))
    /\ UNCHANGED <<sim, sim_out, mainvars, entryvars, statvars, reportvars, runvars>>

NextSim == FetchSample \/ RunSimulate \/ LiveTick

SpecSim == InitSim /\ [][NextSim]_vars

----------------------------------------------------------------------------
(* Entry evaluation, backtest and live, on the same observations: a price  *)
(* history of one period is handed to strat_momentum_scalp; the live loop  *)
(* meets the same observations one per iteration, keeps those its snapshot *)
(* collection accepts, and evaluate runs at a later instant of the period. *)

\* Minutes (tenths) and Up prices of the observations
EntryOffsets == {14, 30, 40, 50, 62, 66}
EntryPrices == {40, 45, 57, 60}

\* Minutes (tenths) at which evaluate runs
EntryClocks == {44, 45, 50, 60, 61, 67}

\* Thresholds of the momentum configurations of build_configs
EntryThresholds == {55, 60}

EntryParams ==
    {[entry_minute |-> ENTRY_MINUTE,
      lookback |-> ENTRY_MINUTE - LOOKBACK_MINUTE,
      threshold |-> th, tp_delta |-> TAKE_PROFIT, sl_delta |-> STOP_LOSS,
      deadline |-> DEADLINE_MINUTE, hold_settlement |-> FALSE] :
        th \in EntryThresholds}

\* The snapshot collection of bot_loop run over the observations from i on
RECURSIVE collect_snapshots(_, _, _, _)
collect_snapshots(L, prices, period_start, i) ==
    IF i > Len(prices) THEN L
    ELSE collect_snapshots(
             snapshot_collection(L, [period_start_ts |-> period_start,
                                     pm_up |-> prices[i].p,
                                     pm_up_id |-> "up_token",
                                     pm_dn_id |-> "dn_token"],
                                 prices[i].t),
             prices, period_start, i + 1)

\* StrategyState of the live loop after it has met the observations
LiveStateFor(prices, period_start) ==
    collect_snapshots(Locals(reset(period_start), BotInit, period_start, -10),
                      prices, period_start, 1).strat_state

\* The live loop's variables while no loop is running
IdleLive ==
    /\ state = StateInit(TRUE)
    /\ now = PERIOD_SECONDS
    /\ strat_state = StrategyStateInit
    /\ bot = BotInit
    /\ last_period_ts = 0
    /\ last_snapshot_minute = -10
    /\ signals_since_reset = 0
    /\ tick_log = NoLog
    /\ sim = NoSim
    /\ sim_out = NoOut
    /\ live_i = 0
    /\ PaperMain

InitEntry ==
    /\ IdleLive
    /\ \E params \in EntryParams :
          bt = [prices_up |-> <<>>, period_start |-> SimPeriodStart,
                outcome |-> "up", params |-> params, clock |-> 0]
    /\ bt_out = NoBtOut
    /\ NoStatsCall
    /\ NoReport

\* fetch_prices_history delivers the next observation, in time order
FetchEntrySample ==
    /\ ~ bt_out.done
    /\ Len(bt.prices_up) < MaxSeries
    /\ \E o \in EntryOffsets, p \in EntryPrices :
          LET t == bt.period_start + o
          IN  /\ Len(bt.prices_up) > 0 => bt.prices_up[Len(bt.prices_up)].t < t
              /\ bt' = [bt EXCEPT !.prices_up = Append(@, [t |-> t, p |-> p])]
    /\ UNCHANGED <<state, now, botvars, simvars, mainvars, bt_out, statvars, reportvars, runvars>>

\* The backtest calls strat_momentum_scalp on the history; the live loop,
\* having met its observations, calls evaluate at a later instant
RunEntry ==
    /\ ~ bt_out.done
    /\ \E c \in EntryClocks :
          LET S == LiveStateFor(bt.prices_up, bt.period_start)
              r == evaluate(S, bt.period_start + c)
          IN  /\ \A i \in 1..Len(bt.prices_up) :
                    bt.prices_up[i].t <= bt.period_start + c
              /\ bt' = [bt EXCEPT !.clock = bt.period_start + c]
              /\ bt_out' = [done |-> TRUE,
                            trade |-> strat_momentum_scalp(bt.prices_up,
                                          bt.period_start, bt.outcome, bt.params),
                            before |-> S, after |-> r.state, sig |-> r.sig]
    /\ UNCHANGED <<state, now, botvars, simvars, mainvars, statvars, reportvars, runvars>>

NextEntry == FetchEntrySample \/ RunEntry

SpecEntry == InitEntry /\ [][NextEntry]_vars

----------------------------------------------------------------------------
(* Reporting: the trades of one configuration are collected period by      *)
(* period and handed to compute_stats.  P&L is per share, in cents.        *)

\* Trades as the strategies return them: take-profit, stop-loss, and
\* deadline exits at and below the entry price
StatTrades ==
    {[pnl |-> TAKE_PROFIT, entry_price |-> 62, exit_type |-> "tp"],
     [pnl |-> -STOP_LOSS, entry_price |-> 62, exit_type |-> "sl"],
     [pnl |-> 0, entry_price |-> 60, exit_type |-> "deadline"],
     [pnl |-> -3, entry_price |-> 60, exit_type |-> "deadline"]}

InitStats ==
    /\ IdleLive
    /\ NoEntry
    /\ stat_trades = <<>>
    /\ stats = NoStats
    /\ NoReport

\* A strategy returns a trade for the next period
AppendTrade ==
    /\ stats = NoStats
    /\ Len(stat_trades) < MaxTrades
    /\ \E t \in StatTrades : stat_trades' = Append(stat_trades, t)
    /\ UNCHANGED <<state, now, botvars, simvars, mainvars, entryvars, stats, reportvars, runvars>>

\* main calls compute_stats on the trades of the configuration
RunStats ==
    /\ stats = NoStats
    /\ stats' = compute_stats(stat_trades)
    /\ UNCHANGED <<state, now, botvars, simvars, mainvars, entryvars, stat_trades, reportvars, runvars>>

NextStats == AppendTrade \/ RunStats

SpecStats == InitStats /\ [][NextStats]_vars

----------------------------------------------------------------------------
(* Split-half stability: a configuration whose trade list reaches the      *)
(* ranking threshold is in `qualified` and in its family's members, and    *)
(* main computes the split-half check for it in the top-15 table and, when *)
(* it is the best of its family, in the family summary.                    *)

\* Numbers of consecutive periods in which a configuration makes the same
\* kind of trade
RunLengths == {7, 10}

\* The same kind of trade in the next k periods
AppendRun ==
    /\ stats = NoStats
    /\ \E k \in RunLengths, t \in StatTrades :
          /\ Len(stat_trades) + k <= MaxHistory
          /\ stat_trades' = stat_trades \o [i \in 1..k |-> t]
    /\ UNCHANGED <<state, now, botvars, simvars, mainvars, entryvars, stats,
                   reportvars, runvars>>

\* main, steps 7 and 8, for a configuration with n >= 20
SplitHalf ==
    /\ stats # NoStats
    /\ stats.n >= MIN_RANK_N
    /\ ~ stability.done
    /\ stability' = [done |-> TRUE, top15 |-> split_half_top15(stat_trades),
                     family |-> split_half_family(stat_trades)]
    /\ UNCHANGED <<state, now, botvars, simvars, mainvars, entryvars, statvars,
                   all_results, qualified, output, step, configs, runvars>>

NextSplit == AppendRun \/ RunStats \/ SplitHalf

SpecSplit == InitStats /\ [][NextSplit]_vars

----------------------------------------------------------------------------
(* Ranking and report: main runs the configurations, ranks those with      *)
(* enough trades and writes the report.  Of the stats of a configuration   *)
(* the ranking reads n and t_stat; t_stat is in hundredths.                *)

Families == {"momentum_scalp", "range_bound"}
TradeCounts == {MIN_RANK_N - 1, MIN_RANK_N}
TStats == {0, 120}

\* The number of configurations of one long stretch of the registry
StretchLen == 50

\* The configurations of the stretch, all with enough trades
Stretch ==
    [i \in 1..StretchLen |->
        [name |-> i,
         family |-> IF i % 2 = 0 THEN "momentum_scalp" ELSE "range_bound",
         stats |-> [n |-> MIN_RANK_N + (i % 3),
                    t_stat |-> ((i * 37) % 11) * 20 - 90]]]

InitReport ==
    /\ IdleLive
    /\ NoEntry
    /\ NoStatsCall
    /\ NoReport

\* main, step 4: the next configuration is run over the periods
RunConfig ==
    /\ step = "run"
    /\ \/ Len(all_results) < MaxConfigs
       \/ Len(all_results) >= StretchLen
          /\ Len(all_results) < StretchLen + MaxConfigs
    /\ \E f \in Families, n \in TradeCounts, t \in TStats :
          all_results' = Append(all_results,
              [name |-> Len(all_results) + 1, family |-> f,
               stats |-> [n |-> n, t_stat |-> t]])
    /\ UNCHANGED <<state, now, botvars, simvars, mainvars, entryvars, statvars,
                   stability, qualified, output, step, configs, runvars>>

\* main, step 4: a stretch of the registry is run over the periods
RunStretch ==
    /\ step = "run"
    /\ all_results = <<>>
    /\ all_results' = Stretch
    /\ UNCHANGED <<state, now, botvars, simvars, mainvars, entryvars, statvars,
                   stability, qualified, output, step, configs, runvars>>

\* main, step 6: the ranking
Rank ==
    /\ step = "run"
    /\ qualified' = rank(all_results)
    /\ step' = "ranked"
    /\ UNCHANGED <<state, now, botvars, simvars, mainvars, entryvars, statvars,
                   stability, all_results, output, configs, runvars>>

\* main, step 10 with --json-out: the report is written
Save ==
    /\ step = "ranked"
    /\ output' = report_results(all_results, qualified)
    /\ step' = "saved"
    /\ UNCHANGED <<state, now, botvars, simvars, mainvars, entryvars, statvars,
                   stability, all_results, qualified, configs, runvars>>

\* main, step 10 without --json-out: no report
Finish ==
    /\ step = "ranked"
    /\ step' = "done"
    /\ UNCHANGED <<state, now, botvars, simvars, mainvars, entryvars, statvars,
                   stability, all_results, qualified, output, configs, runvars>>

NextReport == RunConfig \/ RunStretch \/ Rank \/ Save \/ Finish

SpecReport == InitReport /\ [][NextReport]_vars

----------------------------------------------------------------------------
(* main, step 3: build_configs appends one configuration per pass through  *)
(* the innermost loop body of each family, then returns the list.          *)

InitConfigs ==
    /\ IdleLive
    /\ NoEntry
    /\ NoStatsCall
    /\ stability = NoStability
    /\ all_results = <<>>
    /\ qualified = <<>>
    /\ output = <<>>
    /\ step = "build"
    /\ configs = <<>>
    /\ NoRun

\* configs.append of the family whose loops are running
AppendTo(next) ==
    /\ step = "build"
    /\ configs' = Append(configs, next)
    /\ UNCHANGED <<state, now, botvars, simvars, mainvars, entryvars, statvars,
                   stability, all_results, qualified, output, step,
                   runvars>>

AppendMomentum ==
    /\ Len(configs) < MomentumEnd
    /\ AppendTo(momentum_config(LoopValues(MomentumAxes, Len(configs))))

AppendEarly ==
    /\ Len(configs) >= MomentumEnd
    /\ Len(configs) < EarlyEnd
    /\ AppendTo(early_config(LoopValues(EarlyAxes, Len(configs) - MomentumEnd)))

AppendMeanRev ==
    /\ Len(configs) >= EarlyEnd
    /\ Len(configs) < MeanRevEnd
    /\ AppendTo(meanrev_config(LoopValues(MeanRevAxes, Len(configs) - EarlyEnd)))

AppendVolSpike ==
    /\ Len(configs) >= MeanRevEnd
    /\ Len(configs) < VolSpikeEnd
    /\ AppendTo(volspike_config(
                    LoopValues(VolSpikeAxes, Len(configs) - MeanRevEnd)))

AppendRange ==
    /\ Len(configs) >= VolSpikeEnd
    /\ Len(configs) < RangeEnd
    /\ AppendTo(range_config(RangePasses[Len(configs) - VolSpikeEnd + 1]))

AppendSr ==
    /\ Len(configs) >= RangeEnd
    /\ Len(configs) < SrEnd
    /\ AppendTo(sr_config(SrPasses[Len(configs) - RangeEnd + 1]))

\* return configs
ReturnConfigs ==
    /\ step = "build"
    /\ Len(configs) = SrEnd
    /\ step' = "run"
    /\ UNCHANGED <<state, now, botvars, simvars, mainvars, entryvars, statvars,
                   stability, all_results, qualified, output, configs, runvars>>

NextConfigs ==
    \/ AppendMomentum \/ AppendEarly \/ AppendMeanRev \/ AppendVolSpike
    \/ AppendRange \/ AppendSr \/ ReturnConfigs

SpecConfigs == InitConfigs /\ [][NextConfigs]_vars

-----------------------------------------------------------------------------
(* The run of main: fetch_oracle_periods collects the oracle's results,    *)
(* main keeps the resolved periods, fetches the price history of each and  *)
(* runs every configuration over the periods that have data.               *)

\* startTime of the oracle's results: the starts of the 15-minute periods
StartTimes == {k * PERIOD_SECONDS : k \in 1..MaxPeriods}

\* outcome of a result; "None" is a period not resolved yet
Outcomes == {"up", "down", "None"}

\* What the two fetches of a period return
Fetched == {"no_token", "no_prices", "rising", "mild", "falling", "flat"}

\* The Up-price history of a period, by kind
History(kind, ps) ==
    CASE kind = "rising" ->
           <<[t |-> ps + 30, p |-> 45], [t |-> ps + 50, p |-> 62],
             [t |-> ps + 140, p |-> 62]>>
      [] kind = "mild" ->
           <<[t |-> ps + 30, p |-> 45], [t |-> ps + 50, p |-> 57],
             [t |-> ps + 90, p |-> 72]>>
      [] kind = "falling" ->
           <<[t |-> ps + 30, p |-> 55], [t |-> ps + 50, p |-> 38],
             [t |-> ps + 80, p |-> 45]>>
      [] kind = "flat" ->
           <<[t |-> ps + 30, p |-> 50], [t |-> ps + 50, p |-> 50]>>
      [] OTHER -> <<>>

\* The configurations run: momentum scalps that differ in their threshold
RunAxes == {<<50, 20, th, 15, 5>> : th \in EntryThresholds}

\* all_results of fetch_oracle_periods returned as collected
sort_by_startTime_as_collected(results) == results

\* all_results.sort(key=lambda x: x["startTime"])
sort_by_startTime(results) ==
    LET n == Len(results)
        place(i) ==
            Cardinality({j \in 1..n :
                \/ results[j].startTime < results[i].startTime
                \/ results[j].startTime = results[i].startTime /\ j < i}) + 1
    IN  [k \in 1..n |-> results[CHOOSE i \in 1..n : place(i) = k]]

\* main, step 1: the resolved periods, at most max_periods of them
resolved_periods(results, max_periods) ==
    LET resolved == SelectSeq(results, LAMBDA p : p.outcome \in {"up", "down"})
    IN  SubSeq(resolved, 1, IF Len(resolved) < max_periods THEN Len(resolved)
                            ELSE max_periods)

\* main, step 2: (int(st.timestamp()) // 900) * 900
period_start_ts_of(startTime) == (startTime \div PERIOD_SECONDS) * PERIOD_SECONDS

\* main, step 2: the loop over periods from its i-th period on
RECURSIVE fetch_price_data(_, _, _)
fetch_price_data(ps, fetched, i) ==
    IF i > Len(ps) THEN <<>>
    ELSE LET period_start_ts == period_start_ts_of(ps[i].startTime)
             prices_up == History(fetched[i], period_start_ts)
             rest == fetch_price_data(ps, fetched, i + 1)
         IN  IF fetched[i] = "no_token" THEN rest
             ELSE IF prices_up = <<>> THEN rest
             ELSE <<[period |-> ps[i], period_start_ts |-> period_start_ts,
                     prices_up |-> prices_up, outcome |-> ps[i].outcome]>>
                  \o rest

\* params of a momentum configuration with the defaults params.get fills in
momentum_params(config) ==
    [entry_minute |-> config.params.entry_minute,
     lookback |-> config.params.lookback,
     threshold |-> config.params.threshold,
     tp_delta |-> config.params.tp_delta,
     sl_delta |-> config.params.sl_delta,
     deadline |-> DEADLINE_MINUTE, hold_settlement |-> FALSE]

\* main, step 4: config["fn"] called for one period
run_period(config, pd) ==
    strat_momentum_scalp(pd.prices_up, pd.period_start_ts, pd.outcome,
                         momentum_params(config))

\* main, step 4: the loop over period_data from its i-th period on
RECURSIVE run_periods(_, _, _)
run_periods(config, data, i) ==
    IF i > Len(data) THEN <<>>
    ELSE LET trade == run_period(config, data[i])
         IN  IF trade.traded
             THEN <<trade>> \o run_periods(config, data, i + 1)
             ELSE run_periods(config, data, i + 1)

InitRun ==
    /\ IdleLive
    /\ NoEntry
    /\ NoStatsCall
    /\ stability = NoStability
    /\ all_results = <<>>
    /\ qualified = <<>>
    /\ output = <<>>
    /\ step = "fetch"
    /\ configs = <<>>
    /\ oracle_results = <<>>
    /\ periods = <<>>
    /\ period_data = <<>>
    /\ range_prices = <<>>
    /\ range_call = NoRangeCall
    /\ strat_prices = <<>>
    /\ strat_call = NoStratCall
    /\ lookup = NoLookup

\* fetch_oracle_periods: a result of a response whose key is not in seen
FetchResult ==
    /\ step = "fetch"
    /\ \E st \in StartTimes, o \in Outcomes :
          /\ \A k \in 1..Len(oracle_results) : oracle_results[k].startTime # st
          /\ oracle_results' =
                 Append(oracle_results, [startTime |-> st, outcome |-> o])
    /\ UNCHANGED <<state, now, botvars, simvars, mainvars, entryvars, statvars,
                   reportvars, periods, period_data, range_prices,
                   range_call, strat_prices, strat_call, lookup>>

\* fetch_oracle_periods returns, which ends the life of its all_results, and
\* main keeps the resolved periods
CollectPeriods ==
    /\ step = "fetch"
    /\ \E max_periods \in {MaxPeriods - 1, MaxPeriods} :
          periods' = resolved_periods(sort_by_startTime(oracle_results),
                                      max_periods)
    /\ oracle_results' = <<>>
    /\ step' = IF periods' = <<>> THEN "exit" ELSE "data"
    /\ UNCHANGED <<state, now, botvars, simvars, mainvars, entryvars, statvars,
                   stability, all_results, qualified, output, configs,
                   period_data, range_prices, range_call, strat_prices,
                   strat_call, lookup>>

\* main, step 2: the price histories are fetched
FetchPriceData ==
    /\ step = "data"
    /\ \E fetched \in [1..Len(periods) -> Fetched] :
          period_data' = fetch_price_data(periods, fetched, 1)
    /\ step' = "run"
    /\ UNCHANGED <<state, now, botvars, simvars, mainvars, entryvars, statvars,
                   stability, all_results, qualified, output, configs,
                   oracle_results, periods, range_prices, range_call,
                   strat_prices, strat_call, lookup>>

\* main, step 4: one configuration is run over period_data
RunStrategy ==
    /\ step = "run"
    /\ period_data # <<>>
    /\ Len(all_results) < MaxConfigs
    /\ \E v \in RunAxes :
          LET config == momentum_config(v)
          IN  /\ stat_trades' = run_periods(config, period_data, 1)
              /\ stats' = compute_stats(stat_trades')
              /\ all_results' = Append(all_results,
                     [name |-> config.name, family |-> config.family,
                      params |-> config.params, stats |-> stats',
                      trades |-> stat_trades'])
    /\ UNCHANGED <<state, now, botvars, simvars, mainvars, entryvars,
                   stability, qualified, output, step, configs, runvars>>

NextRun == FetchResult \/ CollectPeriods \/ FetchPriceData \/ RunStrategy

SpecRun == InitRun /\ [][NextRun]_vars

-----------------------------------------------------------------------------
(* The range-bound trader: strat_range_trader is called on the price       *)
(* history of one period, whose samples arrive one minute apart.            *)

\* get_prices_in_window: (minute, price) of the samples of the window
get_prices_in_window(prices, period_start, min_start, min_end) ==
    LET ws == period_start + min_start
        we == period_start + min_end
        inside == SelectSeq(prices, LAMBDA s : ws <= s.t /\ s.t <= we)
    IN  [k \in 1..Len(inside) |->
            [minute |-> inside[k].t - period_start, p |-> inside[k].p]]

\* max(prices_only) and min(prices_only)
max_price(pts) == CHOOSE m \in {pts[k].p : k \in 1..Len(pts)} :
                      \A k \in 1..Len(pts) : pts[k].p <= m
min_price(pts) == CHOOSE m \in {pts[k].p : k \in 1..Len(pts)} :
                      \A k \in 1..Len(pts) : pts[k].p >= m

\* crosses: the steps of prices_only from one side of the midpoint to the
\* other, the midpoint being (max + min) / 2
midpoint_crosses(pts) ==
    LET twice_mid == max_price(pts) + min_price(pts)
    IN  Cardinality({i \in 2..Len(pts) :
            \/ 2 * pts[i - 1].p < twice_mid /\ 2 * pts[i].p >= twice_mid
            \/ 2 * pts[i - 1].p >= twice_mid /\ 2 * pts[i].p < twice_mid})

\* pts[-1] after pts.sort(key=lambda x: x[0]), a stable sort
latest_point(pts) ==
    pts[CHOOSE i \in 1..Len(pts) :
            \A j \in 1..Len(pts) :
                \/ pts[j].minute < pts[i].minute
                \/ pts[j].minute = pts[i].minute /\ j <= i]

\* The side strat_range_trader enters
range_side(pts) ==
    LET price_up == latest_point(pts).p
        price_dn == ONE - price_up
        range_low_up == min_price(pts)
        range_low_dn == ONE - max_price(pts)
        up_from_bottom == price_up - range_low_up
        dn_from_bottom == price_dn - range_low_dn
    IN  IF up_from_bottom < dn_from_bottom /\ price_up < 50 THEN "Up"
        ELSE IF price_dn < 50 THEN "Down"
        ELSE "None"

\* strat_range_trader
strat_range_trader(prices_up, period_start, outcome, params) ==
    LET pts == get_prices_in_window(prices_up, period_start, 0, params.obs_end)
        p_range == max_price(pts) - min_price(pts)
        side == range_side(pts)
        price_up == latest_point(pts).p
        entry_price == IF side = "Up" THEN price_up ELSE ONE - price_up
        entry_min == latest_point(pts).minute
        exit_info == simulate_exit(
            [prices_up |-> prices_up, period_start |-> period_start,
             side |-> side, entry_price |-> entry_price,
             entry_minute |-> entry_min,
             tp_delta |-> params.tp_delta, sl_delta |-> params.sl_delta,
             exit_deadline |-> RANGE_DEADLINE,
             hold_to_settlement |-> FALSE,
             outcome |-> outcome])
    IN  IF Len(pts) < 4 THEN NoTrade
        ELSE IF p_range < params.min_range \/ p_range > params.max_range
        THEN NoTrade
        ELSE IF midpoint_crosses(pts) < 1 THEN NoTrade
        ELSE IF side = "None" THEN NoTrade
        ELSE [traded |-> TRUE, side |-> side, entry_price |-> entry_price,
              entry_minute |-> entry_min, outcome |-> outcome,
              exit_type |-> exit_info.exit_type,
              exit_price |-> exit_info.exit_price,
              exit_minute |-> exit_info.exit_minute, pnl |-> exit_info.pnl]

\* Up prices of the samples
RangePrices == {40, 44, 52, 54, 60}

\* Configurations of the range-bound family that are run
RangeRunAxes == {<<40, 5, 15, 5, 3>>, <<50, 8, 20, 8, 5>>}

InitRange ==
    /\ IdleLive
    /\ NoEntry
    /\ NoStatsCall
    /\ NoReport
    /\ range_prices = <<>>
    /\ range_call = NoRangeCall
    /\ strat_prices = <<>>
    /\ strat_call = NoStratCall

\* fetch_prices_history: the next sample of the period, a minute after the
\* one before
AppendSample ==
    /\ range_call = NoRangeCall
    /\ Len(range_prices) < MaxSamples
    /\ \E p \in RangePrices :
          range_prices' = Append(range_prices,
              [t |-> SimPeriodStart + 10 * (Len(range_prices) + 1), p |-> p])
    /\ UNCHANGED <<state, now, botvars, simvars, mainvars, entryvars, statvars,
                   reportvars, oracle_results, periods, period_data,
                   range_call, strat_prices, strat_call, lookup>>

\* main, step 4: a range-bound configuration is run on the period
RunRangeTrader ==
    /\ range_call = NoRangeCall
    /\ \E v \in RangeRunAxes, outcome \in {"up", "down"} :
          LET config == range_config(v)
          IN  range_call' =
                  [called |-> TRUE, params |-> config.params,
                   outcome |-> outcome,
                   trade |-> strat_range_trader(range_prices, SimPeriodStart,
                                                outcome, config.params)]
    /\ UNCHANGED <<state, now, botvars, simvars, mainvars, entryvars, statvars,
                   reportvars, oracle_results, periods, period_data,
                   range_prices, strat_prices, strat_call, lookup>>

NextRange == AppendSample \/ RunRangeTrader

SpecRange == InitRange /\ [][NextRange]_vars

-----------------------------------------------------------------------------
(* The support/resistance and volatility-spike strategies: each is called  *)
(* on the price history of one period, whose samples arrive one minute     *)
(* apart.                                                                  *)

\* pts.sort(key=lambda x: x[0]), a stable sort
sort_by_minute(pts) ==
    LET n == Len(pts)
        place(i) ==
            Cardinality({j \in 1..n :
                \/ pts[j].minute < pts[i].minute
                \/ pts[j].minute = pts[i].minute /\ j < i}) + 1
    IN  [k \in 1..n |-> pts[CHOOSE i \in 1..n : place(i) = k]]

\* The side strat_sr_bounce enters at a snapshot of the scan, if any
sr_side(price_up, support_up, resist_up, proximity) ==
    LET price_dn == ONE - price_up
        support_dn == ONE - resist_up
    IN  IF Abs(price_up - support_up) <= proximity /\ price_up < 50 THEN "Up"
        ELSE IF Abs(price_dn - support_dn) <= proximity /\ price_dn < 50
        THEN "Down"
        ELSE "None"

\* The scan of strat_sr_bounce that keeps the last snapshot that qualifies
RECURSIVE sr_scan_last(_, _, _, _, _)
sr_scan_last(entry_pts, i, support_up, resist_up, proximity) ==
    IF i > Len(entry_pts) THEN [side |-> "None"]
    ELSE LET later == sr_scan_last(entry_pts, i + 1, support_up, resist_up,
                                   proximity)
             side == sr_side(entry_pts[i].p, support_up, resist_up, proximity)
         IN  IF later.side # "None" THEN later
             ELSE IF side # "None"
             THEN [side |-> side, entry_min |-> entry_pts[i].minute,
                   price_up |-> entry_pts[i].p]
             ELSE later

\* The for loop of strat_sr_bounce from the i-th point of entry_pts on
RECURSIVE sr_scan(_, _, _, _, _)
sr_scan(entry_pts, i, support_up, resist_up, proximity) ==
    IF i > Len(entry_pts) THEN [side |-> "None"]
    ELSE LET side == sr_side(entry_pts[i].p, support_up, resist_up, proximity)
         IN  IF side # "None"
             THEN [side |-> side, entry_min |-> entry_pts[i].minute,
                   price_up |-> entry_pts[i].p]
             ELSE sr_scan(entry_pts, i + 1, support_up, resist_up, proximity)

\* strat_sr_bounce
strat_sr_bounce(prices_up, period_start, outcome, params) ==
    LET early_pts == get_prices_in_window(prices_up, period_start, 0,
                                          params.obs_start)
        support_up == min_price(early_pts)
        resist_up == max_price(early_pts)
        entry_pts == sort_by_minute(
            get_prices_in_window(prices_up, period_start, params.obs_start,
                                 params.obs_end))
        entry == sr_scan(entry_pts, 1, support_up, resist_up, params.proximity)
        entry_price == IF entry.side = "Up" THEN entry.price_up
                       ELSE ONE - entry.price_up
        exit_info == simulate_exit(
            [prices_up |-> prices_up, period_start |-> period_start,
             side |-> entry.side, entry_price |-> entry_price,
             entry_minute |-> entry.entry_min,
             tp_delta |-> params.tp_delta, sl_delta |-> params.sl_delta,
             exit_deadline |-> SR_DEADLINE,
             hold_to_settlement |-> FALSE,
             outcome |-> outcome])
    IN  IF Len(early_pts) < 3 THEN NoTrade
        ELSE IF resist_up - support_up < SR_MIN_RANGE THEN NoTrade
        ELSE IF entry_pts = <<>> THEN NoTrade
        ELSE IF entry.side = "None" THEN NoTrade
        ELSE [traded |-> TRUE, side |-> entry.side,
              entry_price |-> entry_price,
              entry_minute |-> entry.entry_min, outcome |-> outcome,
              exit_type |-> exit_info.exit_type,
              exit_price |-> exit_info.exit_price,
              exit_minute |-> exit_info.exit_minute, pnl |-> exit_info.pnl]

\* Up prices of the samples
StratPrices == {40, 44, 50, 56, 60}

\* Configurations of the support/resistance family that are run
SrRunAxes == {<<30, 60, 5, 5, 3>>, <<40, 70, 2, 8, 5>>}

InitStrat ==
    /\ IdleLive
    /\ NoEntry
    /\ NoStatsCall
    /\ NoReport

\* fetch_prices_history: the next sample of the period, a minute after the
\* one before
AppendStratSample ==
    /\ strat_call = NoStratCall
    /\ Len(strat_prices) < MaxSamples
    /\ \E p \in StratPrices :
          strat_prices' = Append(strat_prices,
              [t |-> SimPeriodStart + 10 * (Len(strat_prices) + 1), p |-> p])
    /\ UNCHANGED <<state, now, botvars, simvars, mainvars, entryvars, statvars,
                   reportvars, oracle_results, periods, period_data,
                   range_prices, range_call, strat_call, lookup>>

\* main, step 4: a support/resistance configuration is run on the period
RunSrBounce ==
    /\ strat_call = NoStratCall
    /\ \E v \in SrRunAxes, outcome \in {"up", "down"} :
          LET config == sr_config(v)
          IN  strat_call' =
                  [called |-> TRUE, family |-> config.family,
                   params |-> config.params, outcome |-> outcome,
                   trade |-> strat_sr_bounce(strat_prices, SimPeriodStart,
                                             outcome, config.params)]
    /\ UNCHANGED <<state, now, botvars, simvars, mainvars, entryvars, statvars,
                   reportvars, oracle_results, periods, period_data,
                   range_prices, range_call, strat_prices, lookup>>

NextSr == AppendStratSample \/ RunSrBounce

SpecSr == InitStrat /\ [][NextSr]_vars

\* A fixed stop-loss delta for the vol_spike family
vol_sl_delta_fixed(entry_price) == STOP_LOSS

\* entry_price * 0.9, the stop-loss delta of the vol_spike family; entry
\* prices are multiples of 0.10, so the product is a whole number of cents
vol_sl_delta(entry_price) == (9 * entry_price) \div 10

\* The side strat_vol_spike_scalp enters at the latest price
vol_side(price_up, max_entry) ==
    LET price_dn == ONE - price_up
    IN  IF price_up <= max_entry /\ price_up <= price_dn THEN "Up"
        ELSE IF price_dn <= max_entry /\ price_dn < price_up THEN "Down"
        ELSE "None"

\* strat_vol_spike_scalp
strat_vol_spike_scalp(prices_up, period_start, outcome, params) ==
    LET pts == get_prices_in_window(prices_up, period_start, 0,
                                    params.entry_window)
        observed_range == max_price(pts) - min_price(pts)
        price_up == latest_point(pts).p
        entry_min == latest_point(pts).minute
        side == vol_side(price_up, params.max_entry)
        entry_price == IF side = "Up" THEN price_up ELSE ONE - price_up
        exit_info == simulate_exit(
            [prices_up |-> prices_up, period_start |-> period_start,
             side |-> side, entry_price |-> entry_price,
             entry_minute |-> entry_min,
             tp_delta |-> params.tp_delta,
             sl_delta |-> vol_sl_delta(entry_price),
             exit_deadline |-> DEADLINE_MINUTE,
             hold_to_settlement |-> params.hold_settlement,
             outcome |-> outcome])
    IN  IF Len(pts) < 3 THEN NoTrade
        ELSE IF observed_range < params.min_range THEN NoTrade
        ELSE IF side = "None" THEN NoTrade
        ELSE [traded |-> TRUE, side |-> side, entry_price |-> entry_price,
              entry_minute |-> entry_min, outcome |-> outcome,
              exit_type |-> exit_info.exit_type,
              exit_price |-> exit_info.exit_price,
              exit_minute |-> exit_info.exit_minute, pnl |-> exit_info.pnl]

\* Up prices of the samples, multiples of 0.10
VolPrices == {0, 10, 50, 90, 100}

\* Configurations of the vol_spike family that are run
VolRunAxes == {<<30, 10, 5, 15, TRUE>>, <<30, 20, 15, 40, FALSE>>}

\* fetch_prices_history: the next sample of the period, a minute after the
\* one before
AppendVolSample ==
    /\ strat_call = NoStratCall
    /\ Len(strat_prices) < MaxSamples
    /\ \A k \in 1..Len(strat_prices) :
          strat_prices[k].t < SimPeriodStart + DEADLINE_MINUTE
    /\ \E p \in VolPrices :
          strat_prices' = Append(strat_prices,
              [t |-> SimPeriodStart + 10 * (Len(strat_prices) + 1), p |-> p])
    /\ UNCHANGED <<state, now, botvars, simvars, mainvars, entryvars, statvars,
                   reportvars, oracle_results, periods, period_data,
                   range_prices, range_call, strat_call, lookup>>

\* fetch_prices_history: the next sample of the period is the one of minute 14
AppendLateSample ==
    /\ strat_call = NoStratCall
    /\ Len(strat_prices) < MaxSamples
    /\ \A k \in 1..Len(strat_prices) :
          strat_prices[k].t < SimPeriodStart + DEADLINE_MINUTE
    /\ \E p \in VolPrices :
          strat_prices' = Append(strat_prices,
              [t |-> SimPeriodStart + DEADLINE_MINUTE, p |-> p])
    /\ UNCHANGED <<state, now, botvars, simvars, mainvars, entryvars, statvars,
                   reportvars, oracle_results, periods, period_data,
                   range_prices, range_call, strat_call, lookup>>

\* main, step 4: a vol_spike configuration is run on the period
RunVolSpike ==
    /\ strat_call = NoStratCall
    /\ \E v \in VolRunAxes, outcome \in {"up", "down"} :
          LET config == volspike_config(v)
          IN  strat_call' =
                  [called |-> TRUE, family |-> config.family,
                   params |-> config.params, outcome |-> outcome,
                   trade |-> strat_vol_spike_scalp(strat_prices,
                                 SimPeriodStart, outcome, config.params)]
    /\ UNCHANGED <<state, now, botvars, simvars, mainvars, entryvars, statvars,
                   reportvars, oracle_results, periods, period_data,
                   range_prices, range_call, strat_prices, lookup>>

NextVol == AppendVolSample \/ AppendLateSample \/ RunVolSpike

SpecVol == InitStrat /\ [][NextVol]_vars

----------------------------------------------------------------------------
(* StrategyState.get_price_at on the snapshots the live loop stores: the   *)
(* loop runs one period on a clock fine enough for two snapshots to lie at *)
(* the same distance from a target minute, then get_price_at is called.    *)

\* Minutes (tenths) of the iterations and Up prices of the feed
LookupMinutes == {26, 30, 34, 46, 50, 54}
LookupPrices == {45, 55, 62}

\* (target_minute, tolerance) of the call
LookupCalls == {<<LOOKBACK_MINUTE, TOLERANCE>>, <<ENTRY_MINUTE, TOLERANCE>>,
                <<ENTRY_MINUTE, 0>>, <<MAX_SIGNAL_MINUTE, SNAPSHOT_SPACING>>}

InitLookup ==
    /\ \E p \in LookupPrices : state = SimFeed(p)
    /\ now = SimPeriodStart
    /\ strat_state = StrategyStateInit
    /\ bot = BotInit
    /\ last_period_ts = 0
    /\ last_snapshot_minute = -10
    /\ signals_since_reset = 0
    /\ tick_log = NoLog
    /\ sim = NoSim
    /\ sim_out = NoOut
    /\ live_i = 0
    /\ PaperMain
    /\ NoEntry
    /\ NoStatsCall
    /\ NoReport

\* One iteration of bot_loop at a later minute of the period
LookupTick ==
    /\ ~ lookup.called
    /\ Len(strat_state.snapshots) < MaxSamples
    /\ \E m \in LookupMinutes, p \in LookupPrices :
          /\ SimPeriodStart + m > now
          /\ now' = SimPeriodStart + m
          /\ state' = [state EXCEPT !.pm_up = p]
          /\ Apply(bot_loop(Locals(strat_state, bot, last_period_ts,
                                   last_snapshot_minute), state', now'))
    /\ UNCHANGED <<simvars, mainvars, entryvars, statvars, reportvars,
                   oracle_results, periods, period_data, range_prices,
                   range_call, strat_prices, strat_call, lookup>>

\* get_price_at is called on the stored snapshots
Lookup ==
    /\ ~ lookup.called
    /\ \E c \in LookupCalls :
          lookup' = [called |-> TRUE, target_minute |-> c[1], tolerance |-> c[2],
                     result |-> get_price_at(strat_state, c[1], c[2])]
    /\ UNCHANGED <<state, now, botvars, simvars, mainvars, entryvars, statvars,
                   reportvars, oracle_results, periods, period_data,
                   range_prices, range_call, strat_prices, strat_call>>

NextLookup == LookupTick \/ Lookup

SpecLookup == InitLookup /\ [][NextLookup]_vars

----------------------------------------------------------------------------
(* Properties of the live loop, checked under Spec *)

LastTrade == bot.trades[Len(bot.trades)]

\* The entry conditions of the current period hold again at this instant
EntryConditionsHold ==
    evaluate([strat_state EXCEPT !.signal_fired = FALSE], now).sig # NoSignal

\* C1 - Single-fire: the feed's period start never decreases (FeedPeriod);
\* between two resets evaluate returns at most one signal, whatever snapshots
\* arrive afterwards, and no two trade records carry the same period_ts.
C1_SingleFire ==
    /\ signals_since_reset <= 1
    /\ \A i, j \in 1..Len(bot.trades) :
          i # j => bot.trades[i].period_ts # bot.trades[j].period_ts

\* A later iteration in which the entry conditions hold again and no signal
\* is returned
C1_Witness ==
    /\ strat_state.signal_fired
    /\ signals_since_reset = 1
    /\ tick_log.signal = NoSignal
    /\ ~ tick_log.period_changed
    /\ EntryConditionsHold
    /\ now - strat_state.period_ts > strat_state.last_signal.entry_minute

\* C2 - Single position: execute is invoked only when current_side is None,
\* and while a position is open the signal_fired gate keeps evaluate from
\* being called, so an entry never overwrites current_side.
C2_SinglePosition ==
    /\ tick_log.executed => tick_log.side_at_execute = "None"
    /\ bot.current_side # "None" => strat_state.signal_fired
    /\ ThisTick.executed => ThisTick.side_at_execute = "None"

\* A second position has been entered after the first one was closed
C2_Witness ==
    /\ tick_log.executed
    /\ Len(bot.trades) = 2
    /\ bot.trades[1].outcome # "None"
    /\ bot.current_side = bot.trades[2].side

\* C3 - Period-scoped exposure: an iteration that observes a new period start
\* with a position open closes it (deadline exit at the live side price when
\* pm_up is available, cancel otherwise) and resets the strategy state; every
\* period-change iteration ends with no position, and an open position always
\* belongs to the period the loop last processed.
C3_PeriodScoped ==
    /\ [](tick_log.period_changed => bot.current_side = "None")
    /\ [](bot.current_side # "None" => LastTrade.period_ts = last_period_ts)
    /\ [][ ( /\ Tick
             /\ bot.current_side # "None"
             /\ state.period_start_ts # last_period_ts
             /\ state.period_start_ts > 0 )
           => /\ bot'.current_side = "None"
              /\ strat_state'.period_ts = state.period_start_ts
              /\ strat_state'.last_signal = NoSignal
              /\ Len(bot'.trades) = Len(bot.trades)
              /\ IF state.pm_up # None
                 THEN /\ tick_log'.forced = "deadline"
                      /\ bot'.trades[Len(bot.trades)].exit_type = "deadline"
                      /\ bot'.trades[Len(bot.trades)].outcome # "None"
                      /\ bot'.trades[Len(bot.trades)].exit_price =
                            IF bot.current_side = "Up" THEN state.pm_up
                            ELSE ONE - state.pm_up
                 ELSE /\ tick_log'.forced = "cancel"
                      /\ bot'.trades = bot.trades ]_vars

\* A position was force-closed at the period boundary although neither the
\* stop-loss nor the take-profit level was reached
C3_Witness ==
    /\ tick_log.period_changed
    /\ tick_log.forced = "deadline"
    /\ LastTrade.exit_type = "deadline"
    /\ LastTrade.exit_price > LastTrade.entry_price - STOP_LOSS
    /\ LastTrade.exit_price < LastTrade.entry_price + TAKE_PROFIT
    /\ bot.current_side = "None"

\* The exit conditions of claim C9 at the current instant
ExitDue ==
    LET p == IF bot.current_side = "Up" THEN state.pm_up ELSE ONE - state.pm_up
    IN  \/ p >= LastTrade.entry_price + TAKE_PROFIT
        \/ p <= LastTrade.entry_price - STOP_LOSS
        \/ now - strat_state.period_ts >= DEADLINE_MINUTE

----------------------------------------------------------------------------
(* Properties of simulate_exit and of the replayed live exit, checked      *)
(* under SpecSim                                                           *)

Samples == 1..Len(sim.prices_up)
SimMinute(i) == sim.prices_up[i].t - sim.period_start
SimPos(i) ==
    IF sim.side = "Up" THEN sim.prices_up[i].p ELSE ONE - sim.prices_up[i].p

\* Sample i lies after the entry dead-zone
PostEntry(i) == SimMinute(i) > sim.entry_minute + DEAD_ZONE
\* ... and within the 15 minutes of the period
Walked(i) == PostEntry(i) /\ SimMinute(i) <= MAX_WALK_MINUTE

CrossesTP(i) == SimPos(i) >= sim.entry_price + sim.tp_delta
CrossesSL(i) == SimPos(i) <= sim.entry_price - sim.sl_delta
AtDeadline(i) == SimMinute(i) >= sim.exit_deadline
Triggers(i) == Walked(i) /\ (CrossesTP(i) \/ CrossesSL(i) \/ AtDeadline(i))

HasTrigger == \E i \in Samples : Triggers(i)
FirstTrigger == CHOOSE i \in Samples : Triggers(i) /\ \A j \in 1..(i - 1) : ~ Triggers(j)

SimDone == sim_out # NoOut
SettlementApplies == sim.hold_to_settlement /\ sim.outcome # ""

\* The live loop closed the position at observation live_i
LiveClosed == live_i > 0 /\ bot.current_side = "None"
LiveTrade == bot.trades[1]
LivePos == SimPos(live_i)
LiveMinute == SimMinute(live_i)

\* C4 - Exit priority: the outcome of simulate_exit is decided by the first
\* triggering sample as take-profit if it crosses the TP target (also when it
\* crosses the SL target or is at the deadline), else stop-loss if it crosses
\* the SL target (also at the deadline), else deadline; the live check_exit
\* orders its tests the same way at the observation that closes the position.
C4_ExitPriority ==
    /\ (SimDone /\ HasTrigger) =>
          sim_out.exit_type =
             IF CrossesTP(FirstTrigger) THEN "tp"
             ELSE IF CrossesSL(FirstTrigger) THEN "sl"
             ELSE "deadline"
    /\ LiveClosed =>
          LiveTrade.exit_type =
             IF LivePos >= LiveTrade.entry_price + TAKE_PROFIT THEN "tp"
             ELSE IF LivePos <= LiveTrade.entry_price - STOP_LOSS THEN "sl"
             ELSE "deadline"

\* One sample at the deadline crosses both targets and resolves as take-profit
C4_Witness ==
    /\ SimDone
    /\ HasTrigger
    /\ CrossesTP(FirstTrigger)
    /\ CrossesSL(FirstTrigger)
    /\ AtDeadline(FirstTrigger)
    /\ sim_out.exit_type = "tp"

\* C5 - Fill at target: a take-profit outcome has exit_price = entry_price +
\* tp_delta and pnl = tp_delta, a stop-loss outcome has exit_price =
\* entry_price - sl_delta and pnl = -sl_delta, however far the sample overshoots.
C5_FillAtTarget ==
    /\ sim_out.exit_type = "tp" =>
          /\ sim_out.exit_price = sim.entry_price + sim.tp_delta
          /\ sim_out.pnl = sim.tp_delta
    /\ sim_out.exit_type = "sl" =>
          /\ sim_out.exit_price = sim.entry_price - sim.sl_delta
          /\ sim_out.pnl = -sim.sl_delta

\* A take-profit decided by a sample that overshoots the target
C5_Witness ==
    /\ sim_out.exit_type = "tp"
    /\ sim.tp_delta = TAKE_PROFIT
    /\ SimPos(FirstTrigger) > sim.entry_price + sim.tp_delta
    /\ sim_out.exit_price = sim.entry_price + TAKE_PROFIT

\* No post-entry sample before the deadline crosses a target
QuietBeforeDeadline ==
    \A i \in Samples :
        (PostEntry(i) /\ ~ AtDeadline(i)) => (~ CrossesTP(i) /\ ~ CrossesSL(i))

HasDeadlineSample == \E i \in Samples : PostEntry(i) /\ AtDeadline(i)
FirstDeadlineSample ==
    CHOOSE i \in Samples :
        /\ PostEntry(i) /\ AtDeadline(i)
        /\ \A j \in 1..(i - 1) : ~ (PostEntry(j) /\ AtDeadline(j))

DeadlineOutcome ==
    /\ sim_out.exit_type = "deadline"
    /\ sim_out.exit_price = SimPos(FirstDeadlineSample)
    /\ sim_out.pnl = SimPos(FirstDeadlineSample) - sim.entry_price

\* C6 as stated - Deadline dominance: whenever no post-entry sample before the
\* deadline crosses the TP or SL target, the outcome is a deadline exit at the
\* observed price of the first sample at minute >= deadline.
C6_AsStated ==
    (SimDone /\ QuietBeforeDeadline /\ HasDeadlineSample) => DeadlineOutcome

\* C6 amended - the same provided that first sample at minute >= deadline lies
\* within the period (minute <= 15) and itself crosses neither target.
C6_DeadlineDominance ==
    ( /\ SimDone
      /\ QuietBeforeDeadline
      /\ HasDeadlineSample
      /\ SimMinute(FirstDeadlineSample) <= MAX_WALK_MINUTE
      /\ ~ CrossesTP(FirstDeadlineSample)
      /\ ~ CrossesSL(FirstDeadlineSample) )
    => DeadlineOutcome

\* A deadline exit after an earlier quiet post-entry sample
C6_Witness ==
    /\ SimDone
    /\ QuietBeforeDeadline
    /\ HasDeadlineSample
    /\ FirstDeadlineSample > 1
    /\ PostEntry(1)
    /\ sim_out.exit_type = "deadline"
    /\ sim_out.pnl # 0

SideWon ==
    \/ (sim.side = "Up" /\ sim.outcome = "up")
    \/ (sim.side = "Down" /\ sim.outcome = "down")

\* C7 - Settlement fallback: with hold_to_settlement and a known outcome, a
\* series walked without a trigger resolves as settlement at 1.0 with pnl
\* 1.0 - entry_price when the side matches the outcome and at 0.0 with pnl
\* -entry_price otherwise; settlement is never returned when a sample triggers.
C7_SettlementFallback ==
    /\ (SimDone /\ SettlementApplies /\ ~ HasTrigger) =>
          /\ sim_out.exit_type = "settlement"
          /\ sim_out.exit_price = IF SideWon THEN ONE ELSE 0
          /\ sim_out.pnl = IF SideWon THEN ONE - sim.entry_price
                           ELSE -sim.entry_price
    /\ sim_out.exit_type = "settlement" => ~ HasTrigger

\* A lost side settles at 0 after a walked sample that triggered nothing
C7_Witness ==
    /\ sim_out.exit_type = "settlement"
    /\ ~ SideWon
    /\ \E i \in Samples : Walked(i)
    /\ sim_out.pnl = -sim.entry_price

\* C8 as stated - Exhausted series: with no trigger and no settlement the
\* outcome is end-of-data at the last sample only if some sample lies after
\* the entry, and no_data with pnl 0 when no sample does.
C8_AsStated ==
    (SimDone /\ ~ HasTrigger /\ ~ SettlementApplies) =>
        IF \E i \in Samples : PostEntry(i)
        THEN /\ sim_out.exit_type = "eod"
             /\ sim_out.exit_price = SimPos(Len(sim.prices_up))
        ELSE /\ sim_out.exit_type = "no_data"
             /\ sim_out.pnl = 0

\* C8 amended - with no trigger and no settlement the outcome is end-of-data
\* at the last sample of the series whenever the series is not empty, also
\* when every sample is at or before the entry dead-zone; it is no_data with
\* pnl 0 only for an empty series.
C8_ExhaustedSeries ==
    (SimDone /\ ~ HasTrigger /\ ~ SettlementApplies) =>
        IF Len(sim.prices_up) > 0
        THEN /\ sim_out.exit_type = "eod"
             /\ sim_out.exit_price = SimPos(Len(sim.prices_up))
             /\ sim_out.pnl = SimPos(Len(sim.prices_up)) - sim.entry_price
        ELSE /\ sim_out.exit_type = "no_data"
             /\ sim_out.pnl = 0

\* End-of-data priced at a sample inside the entry dead-zone
C8_Witness ==
    /\ sim_out.exit_type = "eod"
    /\ Len(sim.prices_up) = 2
    /\ \A i \in Samples : ~ PostEntry(i)
    /\ sim.prices_up[1].p # sim.prices_up[2].p

\* The call uses the live parameters and does not hold to settlement
LiveParameters ==
    /\ sim.tp_delta = TAKE_PROFIT
    /\ sim.sl_delta = STOP_LOSS
    /\ sim.exit_deadline = DEADLINE_MINUTE
    /\ ~ sim.hold_to_settlement

\* Every observation lies after the entry instant and inside the period
InsidePeriod ==
    \A i \in Samples :
        SimMinute(i) > sim.entry_minute /\ SimMinute(i) <= MAX_WALK_MINUTE

\* The live loop has seen the whole series or has closed the position
ReplayDone ==
    SimDone /\ (bot.current_side = "None" \/ live_i = Len(sim.prices_up))

SimExited == sim_out.exit_type \in {"tp", "sl", "deadline"}

\* Dollar P&L of SIZE_USD worth of shares for a per-share P&L
Dollars(per_share) == (SIZE_USD * PnlScale * per_share) \div sim.entry_price

\* C10 as stated - Live/backtest equivalence: on the same observations inside
\* the period the live path closes at the same observation as simulate_exit
\* (tp 0.15, sl 0.05, deadline 14), with the same exit type, the same exit
\* price and the same per-share P&L.
C10_AsStated ==
    (ReplayDone /\ LiveParameters /\ InsidePeriod) =>
        /\ LiveClosed <=> SimExited
        /\ LiveClosed =>
              /\ LiveMinute = sim_out.exit_minute
              /\ LiveTrade.exit_type = sim_out.exit_type
              /\ LiveTrade.exit_price = sim_out.exit_price
              /\ LiveTrade.pnl = Dollars(sim_out.pnl)

\* C10 amended - for observations after the 0.3 minute dead-zone with price_up
\* strictly between 0.02 and 0.98 both paths close at the same observation
\* with the same exit type; a deadline exit has the same price and per-share
\* P&L in both, while on tp and sl simulate_exit reports the target price and
\* the live path the observed side price, at or beyond the target.
C10_ExitEquivalence ==
    ( /\ ReplayDone /\ LiveParameters /\ InsidePeriod
      /\ \A i \in Samples :
            /\ PostEntry(i)
            /\ PM_SANE_LOW < sim.prices_up[i].p
            /\ sim.prices_up[i].p < PM_SANE_HIGH )
    => /\ LiveClosed <=> SimExited
       /\ LiveClosed =>
             /\ LiveMinute = sim_out.exit_minute
             /\ LiveTrade.exit_type = sim_out.exit_type
             /\ LiveTrade.exit_price = LivePos
             /\ LiveTrade.pnl = Dollars(LivePos - sim.entry_price)
             /\ sim_out.exit_type = "deadline" =>
                   /\ sim_out.exit_price = LiveTrade.exit_price
                   /\ Dollars(sim_out.pnl) = LiveTrade.pnl
             /\ sim_out.exit_type = "tp" =>
                   /\ sim_out.exit_price = sim.entry_price + TAKE_PROFIT
                   /\ LiveTrade.exit_price >= sim_out.exit_price
             /\ sim_out.exit_type = "sl" =>
                   /\ sim_out.exit_price = sim.entry_price - STOP_LOSS
                   /\ LiveTrade.exit_price <= sim_out.exit_price

\* Both paths take profit at the second observation; the live exit price is
\* the overshooting observed price
C10_Witness ==
    /\ ReplayDone /\ LiveParameters /\ InsidePeriod
    /\ \A i \in Samples : PostEntry(i)
    /\ LiveClosed
    /\ live_i = 2
    /\ sim_out.exit_type = "tp"
    /\ LiveTrade.exit_type = "tp"
    /\ LiveTrade.exit_price > sim_out.exit_price

----------------------------------------------------------------------------
(* Signal acceptance, the trade history and the period boundary, checked   *)
(* under Spec                                                              *)

IdsKnown == state.pm_up_id # "None" /\ state.pm_dn_id # "None"

\* Some trade record belongs to period p
RecordedFor(p) == \E i \in 1..Len(bot.trades) : bot.trades[i].period_ts = p

\* C11 as stated - after every iteration in which evaluate returned a signal
\* the position is open on the signal's side and a pending record of that
\* period is the last trade; and whenever signal_fired is set there is a
\* position or a trade record of the period.
C11_AsStated ==
    /\ tick_log.signal # NoSignal =>
          /\ bot.current_side = tick_log.signal.side
          /\ Len(bot.trades) > 0
          /\ LastTrade.outcome = "None"
          /\ LastTrade.period_ts = tick_log.signal.period_ts
    /\ strat_state.signal_fired =>
          \/ bot.current_side # "None"
          \/ RecordedFor(strat_state.period_ts)

\* C11 amended - an iteration in which evaluate returns a signal while both
\* token ids are known ends with the position open on the signal's side and
\* one more trade record, pending and of the signal's period; when a token
\* id is missing the signal is consumed (signal_fired is set) and BotState is
\* left as it was.
C11_AtomicAcceptance ==
    [][ (Tick /\ tick_log'.signal # NoSignal)
        => /\ strat_state'.signal_fired
           /\ strat_state'.last_signal = tick_log'.signal
           /\ IF IdsKnown
              THEN /\ bot'.current_side = tick_log'.signal.side
                   /\ Len(bot'.trades) = Len(bot.trades) + 1
                   /\ SubSeq(bot'.trades, 1, Len(bot.trades)) = bot.trades
                   /\ bot'.trades[Len(bot'.trades)].outcome = "None"
                   /\ bot'.trades[Len(bot'.trades)].pnl = NonePnl
                   /\ bot'.trades[Len(bot'.trades)].side = tick_log'.signal.side
                   /\ bot'.trades[Len(bot'.trades)].period_ts
                         = state.period_start_ts
              ELSE bot' = bot ]_vars

\* A Down signal has just been accepted: position and pending record
C11_Witness ==
    /\ tick_log.signal # NoSignal
    /\ tick_log.signal.side = "Down"
    /\ tick_log.executed
    /\ bot.current_side = "Down"
    /\ LastTrade.outcome = "None"
    /\ LastTrade.period_ts = strat_state.period_ts

\* The record is pending: none of the four exit fields is written
Pending(rec) ==
    /\ rec.outcome = "None" /\ rec.exit_type = "None"
    /\ rec.exit_price = None /\ rec.pnl = NonePnl

\* The record is closed: all four exit fields are written
Closed(rec) ==
    /\ rec.outcome \in {"won", "lost"} /\ rec.exit_type # "None"
    /\ rec.exit_price # None /\ rec.pnl # NonePnl

\* B2 keeps every record of B in place, the closed ones unchanged and the
\* pending ones changed at most in their exit fields
KeepsHistory(B, B2) ==
    /\ Len(B2.trades) >= Len(B.trades)
    /\ \A i \in 1..Len(B.trades) :
          /\ Closed(B.trades[i]) => B2.trades[i] = B.trades[i]
          /\ [B2.trades[i] EXCEPT !.outcome = "None", !.exit_type = "None",
                                  !.exit_price = None, !.pnl = NonePnl]
             = [B.trades[i] EXCEPT !.outcome = "None", !.exit_type = "None",
                                  !.exit_price = None, !.pnl = NonePnl]
    /\ \A i \in (Len(B.trades) + 1)..Len(B2.trades) : Pending(B2.trades[i])

\* What execute, exit_position, settle and cancel would make of BotState now
ExecutorCalls ==
    {exit_position(bot, e, p) : e \in {"tp", "sl", "deadline"}, p \in FeedPrices}
    \cup {settle(bot, o) : o \in {"up", "down"}}
    \cup {cancel(bot)}
    \cup {execute(bot, [signal |-> "momentum_scalp", side |-> sd,
                        entry_price |-> p, entry_minute |-> ENTRY_MINUTE,
                        period_ts |-> state.period_start_ts],
                   state.pm_up_id, state.pm_dn_id) :
             sd \in {"Up", "Down"}, p \in FeedPrices}

BoundaryWithPosition ==
    /\ bot.current_side # "None"
    /\ state.period_start_ts # last_period_ts
    /\ state.period_start_ts > 0

\* C16 - Indeterminate path: an iteration that meets a period boundary with
\* a position open and no live price clears current_side, current_token_id
\* and current_order_id and nothing else of BotState: the last record stays
\* pending and trades, total_pnl, wins and losses are as before.
C16_IndeterminatePath ==
    [][ (Tick /\ BoundaryWithPosition /\ state.pm_up = None)
        => /\ bot'.current_side = "None"
           /\ bot'.current_token_id = "None"
           /\ bot'.current_order_id = "None"
           /\ bot'.trades = bot.trades
           /\ Pending(bot'.trades[Len(bot'.trades)])
           /\ bot'.total_pnl = bot.total_pnl
           /\ bot'.wins = bot.wins
           /\ bot'.losses = bot.losses
           /\ tick_log'.forced = "cancel" ]_vars

\* A position has just been cancelled at the boundary, its record pending
C16_Witness ==
    /\ tick_log.period_changed
    /\ tick_log.forced = "cancel"
    /\ state.pm_up = None
    /\ bot.current_side = "None"
    /\ Len(bot.trades) = 1
    /\ Pending(LastTrade)
    /\ LastTrade.period_ts < strat_state.period_ts
    /\ bot.wins + bot.losses = 0

----------------------------------------------------------------------------
(* Failures and restarts, checked under SpecMain                           *)

\* Some bot_loop task runs one iteration
AnyTick == TickMain \/ TickRestarted

\* C13 - Tick failure semantics: an iteration in which a step raises is
\* caught by the loop and leaves StrategyState and BotState as they were when
\* the iteration began.
C13_AsStated ==
    [][ (AnyTick /\ tick_log'.raised)
        => /\ strat_state' = strat_state
           /\ bot' = bot ]_vars

\* C14 - Single writer: at no time, restarts of main included, is more than
\* one bot_loop task running, and no bot_loop task other than the first has
\* run an iteration against the shared executor and strategy state.
C14_AsStated ==
    /\ RunningBotLoops <= 1
    /\ \A k \in 1..Len(restarted) : restarted[k].last_period_ts = 0

\* No two trade records of one period
OneTradePerPeriod ==
    \A i, j \in 1..Len(bot.trades) :
        i # j => bot.trades[i].period_ts # bot.trades[j].period_ts

\* No entry was executed over an open position
NoSecondPosition == tick_log.executed => tick_log.side_at_execute = "None"

\* C15 - Restart safety: with restarts of main in the middle of a period
\* there is still at most one trade per period and no entry over an open
\* position, and an iteration of a restarted bot_loop in a period that has
\* already signalled leaves signal_fired and last_signal as they are.
C15_AsStated ==
    /\ []OneTradePerPeriod
    /\ []NoSecondPosition
    /\ [][ ( /\ TickRestarted
             /\ strat_state.signal_fired
             /\ state.period_start_ts = strat_state.period_ts )
           => /\ strat_state'.signal_fired
              /\ strat_state'.last_signal = strat_state.last_signal ]_vars

\* C17 - Execution failure: an order that could not be placed is recorded
\* with status failed; a failed record stays pending for good, and wins and
\* losses count closed records of placed orders only.
C17_AsStated ==
    /\ \A i \in 1..Len(bot.trades) :
          /\ executor = "live" =>
                (bot.trades[i].status = "failed" <=> bot.trades[i].order_id = "None")
          /\ bot.trades[i].status = "failed" => Pending(bot.trades[i])
    /\ bot.wins + bot.losses =
          Cardinality({i \in 1..Len(bot.trades) :
                          Closed(bot.trades[i]) /\ bot.trades[i].status # "failed"})

----------------------------------------------------------------------------
(* Properties of the entry rule, checked under SpecEntry                   *)

\* p_now and p_before as the backtest looks them up
BtNow == get_price_at_minute(bt.prices_up, bt.period_start, bt.params.entry_minute)
BtBefore ==
    get_price_at_minute(bt.prices_up, bt.period_start,
                        bt.params.entry_minute - bt.params.lookback)

\* p_now and p_before as the live loop looks them up
LiveNow == get_price_at(bt_out.before, ENTRY_MINUTE, TOLERANCE)
LiveBefore == get_price_at(bt_out.before, LOOKBACK_MINUTE, TOLERANCE)

\* The momentum rule on observed prices
UpEligible(p_now, p_before, threshold) ==
    /\ p_now # None /\ p_before # None
    /\ p_now >= threshold /\ p_now > p_before
DownEligible(p_now, p_before, threshold) ==
    /\ p_now # None /\ p_before # None
    /\ ONE - p_now >= threshold /\ p_now < p_before

\* The rule decides the backtest entry
BacktestFollowsRule ==
    /\ (bt_out.trade.traded /\ bt_out.trade.side = "Up")
          <=> UpEligible(BtNow, BtBefore, bt.params.threshold)
    /\ (bt_out.trade.traded /\ bt_out.trade.side = "Down")
          <=> DownEligible(BtNow, BtBefore, bt.params.threshold)
    /\ bt_out.trade.traded =>
          /\ bt_out.trade.side \in {"Up", "Down"}
          /\ bt_out.trade.entry_price =
                IF bt_out.trade.side = "Up" THEN BtNow ELSE ONE - BtNow
    /\ ~ ( /\ UpEligible(BtNow, BtBefore, bt.params.threshold)
           /\ DownEligible(BtNow, BtBefore, bt.params.threshold) )

\* The rule decides the live entry
LiveFollowsRule ==
    /\ bt_out.sig.side = "Up" <=> UpEligible(LiveNow, LiveBefore, THRESHOLD)
    /\ bt_out.sig.side = "Down" <=> DownEligible(LiveNow, LiveBefore, THRESHOLD)
    /\ bt_out.sig # NoSignal =>
          /\ bt_out.sig.side \in {"Up", "Down"}
          /\ bt_out.sig.entry_price =
                IF bt_out.sig.side = "Up" THEN LiveNow ELSE ONE - LiveNow
    /\ ~ ( /\ UpEligible(LiveNow, LiveBefore, THRESHOLD)
           /\ DownEligible(LiveNow, LiveBefore, THRESHOLD) )

\* evaluate ran inside its evaluation window
EvaluatedInWindow ==
    /\ bt.clock - bt.period_start >= ENTRY_MINUTE - ENTRY_WINDOW_LEAD
    /\ bt.clock - bt.period_start <= MAX_SIGNAL_MINUTE

\* C18 as stated - Momentum rule: strat_momentum_scalp and the live evaluate
\* each enter Up iff p_now >= threshold and p_now > p_before, Down iff
\* 1 - p_now >= threshold and p_now < p_before, nothing otherwise, at the
\* entered side's own price, and never find both sides eligible.
C18_AsStated ==
    bt_out.done => BacktestFollowsRule /\ LiveFollowsRule

\* C18 amended - the same for strat_momentum_scalp, and for the live
\* evaluate when it runs at a period minute from 4.5 to 6.0; outside that
\* window evaluate returns no signal whatever the prices.
C18_MomentumRule ==
    bt_out.done =>
        /\ BacktestFollowsRule
        /\ IF EvaluatedInWindow THEN LiveFollowsRule
           ELSE bt_out.sig = NoSignal /\ bt_out.after = bt_out.before

\* Backtest and live both enter Down at 0.60 from an Up price of 0.40
C18_Witness ==
    /\ bt_out.done
    /\ EvaluatedInWindow
    /\ bt_out.trade.traded
    /\ bt_out.trade.side = "Down"
    /\ bt_out.trade.entry_price = bt.params.threshold
    /\ bt_out.sig.side = "Down"
    /\ bt_out.sig.entry_price = THRESHOLD

\* No observation within 90 s of the minute
NoSampleNear(minute) ==
    \A i \in 1..Len(bt.prices_up) :
        Abs(bt.prices_up[i].t - (bt.period_start + minute)) > BT_TOLERANCE

\* No snapshot within 1.0 minute of the minute
NoSnapshotNear(minute) ==
    \A i \in 1..Len(bt_out.before.snapshots) :
        Abs(bt_out.before.snapshots[i].minute - minute) > TOLERANCE

BtDataMissing ==
    \/ NoSampleNear(bt.params.entry_minute)
    \/ NoSampleNear(bt.params.entry_minute - bt.params.lookback)

LiveDataMissing ==
    NoSnapshotNear(ENTRY_MINUTE) \/ NoSnapshotNear(LOOKBACK_MINUTE)

\* C19 - Missing data: with no observation within tolerance of the entry
\* minute or of the lookback minute, strat_momentum_scalp returns no trade;
\* with no snapshot within tolerance of either minute, evaluate returns no
\* signal, leaves the strategy state (signal_fired included) as it was, and
\* returns no signal again when called on that state.
C19_MissingData ==
    bt_out.done =>
        /\ BtDataMissing => bt_out.trade = NoTrade
        /\ LiveDataMissing =>
              /\ bt_out.sig = NoSignal
              /\ bt_out.after = bt_out.before
              /\ ~ bt_out.after.signal_fired
              /\ evaluate(bt_out.after, bt.clock).sig = NoSignal

\* A leading, rising price at minute 5 whose lookback observation is out of
\* reach: neither path enters
C19_Witness ==
    /\ bt_out.done
    /\ EvaluatedInWindow
    /\ Len(bt.prices_up) = 2
    /\ bt.prices_up[1].p < bt.prices_up[2].p
    /\ bt.prices_up[2].p >= THRESHOLD
    /\ ~ NoSampleNear(bt.params.entry_minute)
    /\ NoSampleNear(bt.params.entry_minute - bt.params.lookback)
    /\ ~ NoSnapshotNear(ENTRY_MINUTE)
    /\ NoSnapshotNear(LOOKBACK_MINUTE)
    /\ bt_out.trade = NoTrade
    /\ bt_out.sig = NoSignal

----------------------------------------------------------------------------
(* Properties of compute_stats, checked under SpecStats                    *)

\* The P&L values of the trades, as a list
Pnls == [i \in 1..Len(stat_trades) |-> stat_trades[i].pnl]

\* The sum of the values v[i] for i in the index set I
RECURSIVE Total(_, _)
Total(v, I) ==
    IF I = {} THEN 0
    ELSE LET i == CHOOSE k \in I : TRUE IN v[i] + Total(v, I \ {i})

Winners == {i \in 1..Len(stat_trades) : Pnls[i] > 0}
Losers == {i \in 1..Len(stat_trades) : Pnls[i] < 0}

\* Two quotients are the same number
SameQuot(a, b) == a.num * b.den = b.num * a.den

\* C20 - Aggregate metrics: for a non-empty trade list compute_stats returns
\* n = the number of trades, wins = the number of trades with pnl > 0,
\* wr = wins / n, mean_pnl = sum(pnl) / n, pf = (sum of the positive pnl) /
\* |sum of the negative pnl| wherever some pnl is negative, and exit-type
\* counts that sum to n; for the P&L 15, 15, -5, 15, -5 (cents) that is
\* n 5, wins 3, wr 0.6, mean 7 cents and pf 4.5.
C20_AggregateMetrics ==
    (stats # NoStats /\ Len(stat_trades) > 0) =>
        /\ stats.n = Len(stat_trades)
        /\ stats.wins = Cardinality(Winners)
        /\ SameQuot(stats.wr, Quot(Cardinality(Winners), Len(stat_trades)))
        /\ SameQuot(stats.mean_pnl,
                    Quot(Total(Pnls, 1..Len(stat_trades)), Len(stat_trades)))
        /\ Losers # {} =>
              SameQuot(stats.pf,
                       Quot(Total(Pnls, Winners), Abs(Total(Pnls, Losers))))
        /\ Total(stats.exit_types, DOMAIN stats.exit_types) = stats.n
        /\ Pnls = <<15, 15, -5, 15, -5>> =>
              /\ stats.n = 5
              /\ stats.wins = 3
              /\ SameQuot(stats.wr, Quot(6, 10))
              /\ SameQuot(stats.mean_pnl, Quot(7, 1))
              /\ SameQuot(stats.pf, Quot(45, 10))

\* compute_stats has answered for a list with wins, losses and a zero P&L
C20_Witness ==
    /\ stats # NoStats
    /\ Len(stat_trades) = 5
    /\ Cardinality(Winners) = 2
    /\ Cardinality(Losers) = 2
    /\ stats.wins = 2
    /\ Cardinality(DOMAIN stats.exit_types) = 3

----------------------------------------------------------------------------
(* Properties of the split-half check, checked under SpecSplit             *)

\* C21 - Split-half stability: the list is cut at index len // 2 into two
\* halves that keep the order and together are the whole list; the
\* configuration is marked stable exactly when the mean P&L of each half is
\* strictly positive, so never when the second half has a negative mean; and
\* the top-15 table and the family summary give the same verdict.
C21_SplitHalf ==
    stability.done =>
        LET top == stability.top15
            fam == stability.family
        IN  /\ Len(top.h1) = Len(stat_trades) \div 2
            /\ top.h1 \o top.h2 = Pnls
            /\ top.ok <=> /\ Total(top.h1, DOMAIN top.h1) > 0
                          /\ Total(top.h2, DOMAIN top.h2) > 0
            /\ Total(top.h2, DOMAIN top.h2) < 0 => ~ top.ok
            /\ fam.stable <=> top.ok

\* An odd-length list is split inside a run of losses, with a first half
\* whose mean is positive and a second half whose mean is zero
C21_Witness ==
    /\ stability.done
    /\ Len(stat_trades) = 21
    /\ Total(stability.top15.h1, DOMAIN stability.top15.h1) > 0
    /\ Total(stability.top15.h2, DOMAIN stability.top15.h2) = 0
    /\ ~ stability.top15.ok

----------------------------------------------------------------------------
(* Properties of the ranking and the report, checked under SpecReport      *)

Ranked == step # "run"

NamesOf(seq) == {seq[k].name : k \in 1..Len(seq)}

Qualifying == {i \in 1..Len(all_results) : all_results[i].stats.n >= MIN_RANK_N}

\* C22 - Ranking: every configuration of the ranked list has n >= 20, no
\* configuration with n >= 20 is left out of it (and none is listed twice),
\* and the list is in order of non-increasing t_stat.
C22_Ranking ==
    Ranked =>
        /\ \A k \in 1..Len(qualified) : qualified[k].stats.n >= MIN_RANK_N
        /\ NamesOf(qualified) = {all_results[i].name : i \in Qualifying}
        /\ Len(qualified) = Cardinality(Qualifying)
        /\ \A k \in 1..Len(qualified) :
              \E i \in Qualifying : qualified[k] = all_results[i]
        /\ \A k \in 1..(Len(qualified) - 1) :
              qualified[k].stats.t_stat >= qualified[k + 1].stats.t_stat

\* A ranking that left configurations out and had to reorder the rest
C22_Witness ==
    /\ Ranked
    /\ Len(qualified) > REPORT_LIMIT
    /\ Len(qualified) < Len(all_results)
    /\ \E k \in 1..(Len(qualified) - 1) : qualified[k].name > qualified[k + 1].name
    /\ all_results[Len(all_results)].stats.n < MIN_RANK_N
    /\ qualified[1].name > StretchLen

ReportEntry(r) == [name |-> r.name, family |-> r.family, stats |-> r.stats]

\* C24 as stated - Backtest report: the report has one {name, family, stats}
\* entry for every qualifying configuration, in ranking order.
C24_AsStated ==
    step = "saved" =>
        /\ Len(output) = Len(qualified)
        /\ \A k \in 1..Len(output) : output[k] = ReportEntry(qualified[k])

\* C24 - Backtest report: the report has one {name, family, stats} entry for
\* each of the first 50 configurations of the ranking, in ranking order, and
\* no other entry.
C24_Report ==
    step = "saved" =>
        /\ Len(output) = IF Len(qualified) < REPORT_LIMIT
                         THEN Len(qualified) ELSE REPORT_LIMIT
        /\ \A k \in 1..Len(output) : output[k] = ReportEntry(qualified[k])

\* A report of a ranking longer than the report, whose first entry is not
\* the first configuration run
C24_Witness ==
    /\ step = "saved"
    /\ Len(qualified) > REPORT_LIMIT
    /\ Len(output) = REPORT_LIMIT
    /\ output[1].name # all_results[1].name

----------------------------------------------------------------------------
(* Properties of the registry, checked under SpecConfigs                   *)

Returned == step = "run" /\ Len(configs) > 0

\* C23 - Registry names: in the list build_configs returns no two
\* configurations share a name, and two configurations of one family with
\* different parameter values have different names.
C23_RegistryNames ==
    Returned =>
        /\ Cardinality({configs[i].name : i \in 1..Len(configs)}) = Len(configs)
        /\ \A i, j \in 1..Len(configs) :
              (/\ configs[i].family = configs[j].family
               /\ configs[i].params # configs[j].params)
                  => configs[i].name # configs[j].name

\* The returned list has the configurations of all six families
C23_Witness ==
    /\ Returned
    /\ Len(configs) = 1818
    /\ Cardinality({configs[i].family : i \in 1..Len(configs)}) = 6
    /\ configs[1].name = "mom_m5_lb2_55%_tp0.05_sl0.05"
    /\ configs[145].name = "early_w2_35%_tp0.05_sl0.03"
    /\ configs[Len(configs)].name = "sr_s5_e10_p0.05_tp0.10_sl0.05"

----------------------------------------------------------------------------
(* Properties of the evaluation window, checked under SpecEntry            *)

\* The period minute at which evaluate ran
EvaluatedAt == bt.clock - bt.period_start

\* C25 - Evaluation window: evaluate returns no signal, and leaves
\* signal_fired unset, when the period minute is below 4.5 or above 6.0,
\* whatever the snapshots, so that after the window has closed without a
\* signal none fires in that period; a signal it returns carries the minute
\* of the evaluation as entry_minute, which lies in [4.5, 6.0].
C25_EvaluationWindow ==
    bt_out.done =>
        /\ (EvaluatedAt < ENTRY_MINUTE - ENTRY_WINDOW_LEAD
              \/ EvaluatedAt > MAX_SIGNAL_MINUTE)
                => /\ bt_out.sig = NoSignal
                   /\ ~ bt_out.after.signal_fired
                   /\ evaluate(bt_out.after, bt.clock).sig = NoSignal
        /\ bt_out.sig # NoSignal =>
              /\ bt_out.sig.entry_minute = EvaluatedAt
              /\ bt_out.sig.entry_minute >= 45
              /\ bt_out.sig.entry_minute <= 60

\* evaluate runs at minute 6.1 on snapshots that satisfy the momentum rule
\* and returns no signal
C25_Witness ==
    /\ bt_out.done
    /\ EvaluatedAt = 61
    /\ UpEligible(LiveNow, LiveBefore, THRESHOLD)
    /\ bt_out.sig = NoSignal
    /\ ~ bt_out.after.signal_fired

----------------------------------------------------------------------------
(* Properties of the period reset, checked under Spec                      *)

\* The loop is about to observe a period start it has not processed
PeriodStartObserved ==
    state.period_start_ts # last_period_ts /\ state.period_start_ts > 0

\* C26 - Period reset: an iteration that observes a new period start resets
\* the StrategyState, whether or not a signal fired in the period before:
\* period_ts is the new period start, signal_fired is false, last_signal is
\* None and the buffer holds nothing but a snapshot this iteration itself
\* took; the reset leaves BotState.trades, total_pnl, wins and losses as they
\* were (with a position open at the boundary only the period-end close of
\* the last record changes them); and an iteration that observes no new
\* period start does not reset.
C26_PeriodReset ==
    /\ [][ (Tick /\ PeriodStartObserved)
           => /\ tick_log'.period_changed
              /\ strat_state'.period_ts = state.period_start_ts
              /\ ~ strat_state'.signal_fired
              /\ strat_state'.last_signal = NoSignal
              /\ Len(strat_state'.snapshots) <= 1
              /\ \A i \in 1..Len(strat_state'.snapshots) :
                    strat_state'.snapshots[i].minute = now - state.period_start_ts
              /\ Len(bot'.trades) = Len(bot.trades)
              /\ \A i \in 1..(Len(bot.trades) - 1) :
                    bot'.trades[i] = bot.trades[i]
              /\ bot.current_side = "None" =>
                    /\ bot'.trades = bot.trades
                    /\ bot'.total_pnl = bot.total_pnl
                    /\ bot'.wins = bot.wins
                    /\ bot'.losses = bot.losses ]_vars
    /\ [][ (Tick /\ ~ PeriodStartObserved)
           => /\ ~ tick_log'.period_changed
              /\ strat_state'.period_ts = strat_state.period_ts
              /\ Len(strat_state'.snapshots) >= Len(strat_state.snapshots) ]_vars

\* The reset has just happened after a period in which a signal fired and
\* was traded: the buffer is empty and the trade is still in the history
C26_Witness ==
    /\ tick_log.period_changed
    /\ strat_state.period_ts > PERIOD_SECONDS
    /\ strat_state.snapshots = <<>>
    /\ ~ strat_state.signal_fired
    /\ strat_state.last_signal = NoSignal
    /\ Len(bot.trades) = 1
    /\ bot.trades[1].period_ts < strat_state.period_ts
    /\ bot.trades[1].outcome = "won"
    /\ bot.wins = 1

----------------------------------------------------------------------------
(* Properties of the snapshot buffer, checked under SpecMain               *)

\* C27 - Snapshot buffer invariant: in every reachable state all snapshots
\* of the buffer have minute in [2.5, 14.0] and price_up strictly between
\* 0.02 and 0.98, are in strictly increasing minute order with consecutive
\* snapshots at least 0.4 minute apart, and none was taken in an earlier
\* period (none has a minute the current period has not reached yet).
C27_AsStated ==
    LET snaps == strat_state.snapshots
    IN  /\ \A i \in 1..Len(snaps) :
              /\ snaps[i].minute >= 25 /\ snaps[i].minute <= 140
              /\ snaps[i].price_up > 2 /\ snaps[i].price_up < 98
              /\ snaps[i].minute <= now - strat_state.period_ts
        /\ \A i \in 1..(Len(snaps) - 1) :
              /\ snaps[i].minute < snaps[i + 1].minute
              /\ snaps[i + 1].minute - snaps[i].minute >= 4

----------------------------------------------------------------------------
(* Properties of the walk of simulate_exit, checked under SpecSim          *)

TimedExit == sim_out.exit_type \in {"tp", "sl", "deadline"}

\* C28 - Dead-zone and walk order: a sample at minute <= entry_minute + 0.3
\* or at minute > 15 never triggers an exit of simulate_exit; every tp, sl or
\* deadline outcome has exit_minute in (entry_minute + 0.3, 15]; and the
\* outcome is decided by the first sample in time order, after the entry
\* dead-zone, that meets the take-profit, stop-loss or deadline condition.
C28_DeadZoneWalkOrder ==
    SimDone =>
        /\ TimedExit <=>
              \E i \in Samples :
                  /\ SimMinute(i) > sim.entry_minute + 3
                  /\ SimMinute(i) <= 150
                  /\ CrossesTP(i) \/ CrossesSL(i) \/ AtDeadline(i)
        /\ TimedExit =>
              /\ sim_out.exit_minute > sim.entry_minute + 3
              /\ sim_out.exit_minute <= 150
              /\ sim_out.exit_minute = SimMinute(FirstTrigger)
              /\ \A j \in Samples :
                    (Triggers(j) /\ j # FirstTrigger)
                        => SimMinute(j) >= sim_out.exit_minute
              /\ sim_out.exit_type = "tp" => CrossesTP(FirstTrigger)
              /\ sim_out.exit_type = "sl" => CrossesSL(FirstTrigger)
              /\ sim_out.exit_type = "deadline" => AtDeadline(FirstTrigger)

\* A sample inside the dead-zone crosses the take-profit target and the
\* stop-loss sample after it decides the outcome
C28_Witness ==
    /\ SimDone
    /\ Len(sim.prices_up) = 2
    /\ SimMinute(1) = sim.entry_minute + 3
    /\ CrossesTP(1)
    /\ sim.tp_delta > 0
    /\ sim_out.exit_type = "sl"
    /\ sim_out.exit_minute = sim.entry_minute + 4


\* The trades of a result are those of the periods idx names, in that order
TradesFollow(r, idx) ==
    /\ \A i \in 1..Len(r.trades) :
          /\ r.trades[i] = run_period(r, period_data[idx[i]])
          /\ \A j \in 1..Len(r.trades) : i < j => idx[i] < idx[j]
    /\ \A k \in 1..Len(period_data) :
          (\A i \in 1..Len(r.trades) : idx[i] # k)
              => ~ run_period(r, period_data[k]).traded

\* C29 - Chronological trade sequence: the periods with data are in strictly
\* increasing order of period start; for each configuration run, the trade
\* list is made of the trades the strategy returned for these periods, in
\* the periods' order and at most one per period, and a period for which the
\* strategy returns None contributes nothing while the others keep their
\* trades; that list is the one handed to compute_stats.
C29_ChronologicalTrades ==
    /\ \A i, j \in 1..Len(period_data) :
          i < j => period_data[i].period_start_ts < period_data[j].period_start_ts
    /\ \A c \in 1..Len(all_results) :
          LET r == all_results[c]
          IN  /\ Len(r.trades) <= Len(period_data)
              /\ \E idx \in [1..Len(r.trades) -> 1..Len(period_data)] :
                    TradesFollow(r, idx)
              /\ r.stats = compute_stats(r.trades)
    /\ all_results # <<>> =>
          /\ stat_trades = all_results[Len(all_results)].trades
          /\ stats = all_results[Len(all_results)].stats

\* Three periods have data, the strategy returned None for the second of
\* them and a trade for the first and for the third
C29_Witness ==
    /\ step = "run"
    /\ Len(period_data) = 3
    /\ all_results # <<>>
    /\ LET r == all_results[Len(all_results)]
       IN  /\ Len(r.trades) = 2
           /\ ~ run_period(r, period_data[2]).traded
           /\ r.trades[1] # r.trades[2]


\* The samples strat_range_trader observed in the call made
Observed ==
    get_prices_in_window(range_prices, SimPeriodStart, 0,
                         range_call.params.obs_end)

\* How far the latest price of each side is above the bottom of its range
UpFromBottom == latest_point(Observed).p - min_price(Observed)
DnFromBottom == max_price(Observed) - latest_point(Observed).p

\* The observed range
ObservedRange == max_price(Observed) - min_price(Observed)

\* C30 - Range-bound entry: when strat_range_trader returns a trade, the
\* latest price of the side entered is below 0.50, the side entered is not
\* the one farther from its own range bottom, the observed range lies in
\* [min_range, max_range] and the prices crossed the midpoint at least once.
C30_AsStated ==
    (range_call.called /\ range_call.trade.traded) =>
        /\ range_call.trade.entry_price < 50
        /\ range_call.trade.side = "Up" => UpFromBottom <= DnFromBottom
        /\ range_call.trade.side = "Down" => DnFromBottom <= UpFromBottom
        /\ ObservedRange >= range_call.params.min_range
        /\ ObservedRange <= range_call.params.max_range
        /\ midpoint_crosses(Observed) >= 1


\* The early window and the observation window of the strat_sr_bounce call
SrEarly ==
    get_prices_in_window(strat_prices, SimPeriodStart, 0,
                         strat_call.params.obs_start)
SrWindow ==
    get_prices_in_window(strat_prices, SimPeriodStart,
                         strat_call.params.obs_start, strat_call.params.obs_end)

\* Up is within proximity of its support and below 0.50 at snapshot k
UpNearSupport(k) ==
    /\ Abs(SrWindow[k].p - min_price(SrEarly)) <= strat_call.params.proximity
    /\ SrWindow[k].p < 50

\* Down is within proximity of its support and below 0.50 at snapshot k
DownNearSupport(k) ==
    /\ Abs(max_price(SrEarly) - SrWindow[k].p) <= strat_call.params.proximity
    /\ ONE - SrWindow[k].p < 50

\* The snapshots of the observation window at which a side qualifies
SrQualifying ==
    {k \in 1..Len(SrWindow) : UpNearSupport(k) \/ DownNearSupport(k)}

\* C31 - Support/Resistance scan: strat_sr_bounce returns None when the early
\* window [0, obs_start] has fewer than 3 samples or a range below 0.05;
\* otherwise it returns a trade exactly when some snapshot of [obs_start,
\* obs_end] has a side within proximity of its own support and below 0.50,
\* and the entry is the one of these snapshots with the smallest minute, at
\* the price of a side that qualifies there.
C31_SupportResistanceScan ==
    (strat_call.called /\ strat_call.family = "support_resistance") =>
        IF Len(SrEarly) < 3 THEN ~ strat_call.trade.traded
        ELSE IF max_price(SrEarly) - min_price(SrEarly) < 5
        THEN ~ strat_call.trade.traded
        ELSE /\ strat_call.trade.traded <=> SrQualifying # {}
             /\ strat_call.trade.traded =>
                   \E k \in SrQualifying :
                      /\ \A j \in SrQualifying :
                            SrWindow[k].minute <= SrWindow[j].minute
                      /\ strat_call.trade.entry_minute = SrWindow[k].minute
                      /\ \/ /\ strat_call.trade.side = "Up"
                            /\ UpNearSupport(k)
                            /\ strat_call.trade.entry_price = SrWindow[k].p
                         \/ /\ strat_call.trade.side = "Down"
                            /\ DownNearSupport(k)
                            /\ strat_call.trade.entry_price
                                   = ONE - SrWindow[k].p

\* A trade is returned from a window in which a later snapshot qualifies too
C31_Witness ==
    /\ strat_call.called
    /\ strat_call.family = "support_resistance"
    /\ strat_call.trade.traded
    /\ \E k \in SrQualifying :
          SrWindow[k].minute > strat_call.trade.entry_minute


\* A vol_spike call that returned a trade
VolTraded ==
    /\ strat_call.called
    /\ strat_call.family = "vol_spike"
    /\ strat_call.trade.traded

\* Minute and position price of the k-th sample for the trade returned
VolMinute(k) == strat_prices[k].t - SimPeriodStart
VolPosPrice(k) ==
    IF strat_call.trade.side = "Up" THEN strat_prices[k].p
    ELSE ONE - strat_prices[k].p

\* The position price of sample k is at most 0.1 x entry_price
VolAtStop(k) == 10 * VolPosPrice(k) <= strat_call.trade.entry_price

\* Sample k is one the exit simulator tests: past the dead zone, not past
\* minute 15
VolWalked(k) ==
    /\ VolMinute(k) > strat_call.trade.entry_minute + DEAD_ZONE
    /\ VolMinute(k) <= MAX_WALK_MINUTE

\* Sample k meets none of the take-profit, stop-loss and deadline tests
VolNoExitAt(k) ==
    /\ VolPosPrice(k)
           < strat_call.trade.entry_price + strat_call.params.tp_delta
    /\ ~ VolAtStop(k)
    /\ VolMinute(k) < DEADLINE_MINUTE

\* The samples of [0, entry_window]
VolObserved ==
    get_prices_in_window(strat_prices, SimPeriodStart, 0,
                         strat_call.params.entry_window)

\* What C32 says of the pnl of a stop-loss and of the entry
VolStopPnlAndEntry ==
    /\ strat_call.trade.exit_type = "sl" =>
          10 * strat_call.trade.pnl = -9 * strat_call.trade.entry_price
    /\ max_price(VolObserved) - min_price(VolObserved)
           >= strat_call.params.min_range
    /\ strat_call.trade.entry_price <= strat_call.params.max_entry
    /\ strat_call.trade.entry_price <= ONE - strat_call.trade.entry_price
    /\ strat_call.trade.entry_price
           \in {latest_point(VolObserved).p, ONE - latest_point(VolObserved).p}

\* C32 as stated - Volatility Spike stop-loss: a vol_spike trade has a
\* stop-loss outcome exactly when some post-entry position price is at most
\* 0.1 x entry_price; it then carries pnl = -0.9 x entry_price; the entry has
\* an observed range of at least min_range and is at the cheaper side's
\* price, which is at most max_entry.
C32_AsStated ==
    VolTraded =>
        /\ strat_call.trade.exit_type = "sl" <=>
              \E k \in 1..Len(strat_prices) :
                  /\ VolMinute(k) > strat_call.trade.entry_minute
                  /\ VolAtStop(k)
        /\ VolStopPnlAndEntry

\* C32 - Volatility Spike stop-loss: a vol_spike trade has a stop-loss
\* outcome exactly when the first sample past the dead zone and not past
\* minute 15 that meets the take-profit, stop-loss or deadline test has a
\* position price of at most 0.1 x entry_price; it then carries
\* pnl = -0.9 x entry_price; the entry has at least 3 observed samples, an
\* observed range of at least min_range and is at the cheaper side's price,
\* which is at most max_entry.
C32_VolSpikeStopLoss ==
    VolTraded =>
        /\ strat_call.trade.exit_type = "sl" <=>
              \E k \in 1..Len(strat_prices) :
                  /\ VolWalked(k)
                  /\ VolAtStop(k)
                  /\ \A j \in 1..(k - 1) : VolWalked(j) => VolNoExitAt(j)
        /\ VolStopPnlAndEntry
        /\ Len(VolObserved) >= 3

\* A stop-loss of a position entered above 0, after a sample that met no test
C32_Witness ==
    /\ VolTraded
    /\ strat_call.trade.exit_type = "sl"
    /\ strat_call.trade.entry_price > 0
    /\ \E j \in 1..Len(strat_prices) :
          /\ VolWalked(j)
          /\ VolMinute(j) < strat_call.trade.exit_minute


\* The quotients of the returned dict other than pf
StatQuotients ==
    {stats.wr, stats.mean_pnl, stats.avg_entry, stats.avg_win, stats.avg_loss,
     stats.std.sqrt_of, stats.t_stat.sqrt_of}

\* A statistic that is the number 0
IsZero(q) == q.num = 0 /\ q.den > 0

\* All P&L values of the list are equal
AllEqualPnl == \A i, j \in 1..Len(stat_trades) : Pnls[i] = Pnls[j]

\* C33 - Degenerate statistics: compute_stats divides by no zero: an empty
\* trade list yields {n: 0}; for a non-empty one every quotient has a
\* non-zero divisor, t_stat is 0 whenever std is 0, which includes n = 1 and
\* all-equal P&L, pf is +inf whenever no trade has a strictly negative P&L
\* and a quotient otherwise, avg_win is 0 when there are no wins and avg_loss
\* is 0 when every trade is a win.
C33_DegenerateStatistics ==
    stats # NoStats =>
        IF Len(stat_trades) = 0 THEN stats = [n |-> 0]
        ELSE /\ \A q \in StatQuotients : q.den > 0
             /\ IsZero(stats.std.sqrt_of) =>
                   stats.t_stat.sign = 0 /\ IsZero(stats.t_stat.sqrt_of)
             /\ (Len(stat_trades) = 1 \/ AllEqualPnl) =>
                   IsZero(stats.std.sqrt_of) /\ stats.t_stat.sign = 0
             /\ Losers = {} => stats.pf = PF_INF
             /\ Losers # {} => stats.pf.den > 0
             /\ Winners = {} => IsZero(stats.avg_win)
             /\ Cardinality(Winners) = Len(stat_trades) =>
                   IsZero(stats.avg_loss)

\* compute_stats has answered for a single trade that is a win
C33_Witness ==
    /\ stats # NoStats
    /\ Len(stat_trades) = 1
    /\ Winners = {1}
    /\ stats.pf = PF_INF
    /\ IsZero(stats.avg_loss)
    /\ stats.t_stat.sign = 0

\* n^2 times the sum of the squared deviations of the P&L from their mean
SquaredDeviations ==
    LET n == Len(stat_trades)
        s == Total(Pnls, 1..n)
    IN  Total([i \in 1..n |-> (n * Pnls[i] - s) * (n * Pnls[i] - s)], 1..n)

\* t_stat = mean / (std / sqrt(n)) for the std returned: same sign as the
\* mean, and t_stat^2 * std^2 = mean^2 * n
TStatFromStd ==
    LET n == Len(stat_trades)
        s == Total(Pnls, 1..n)
        t == stats.t_stat.sqrt_of
        v == stats.std.sqrt_of
    IN  IsZero(v) \/
           /\ stats.t_stat.sign = (IF s > 0 THEN 1 ELSE IF s < 0 THEN -1 ELSE 0)
           /\ t.num * v.num * n = s * s * t.den * v.den

\* C34 as stated - Standard deviation: the std of compute_stats is the
\* population standard deviation of the P&L values, the root of the sum of
\* squared deviations from the mean divided by n, and t_stat is
\* mean / (std / sqrt(n)) for that value.
C34_AsStated ==
    (stats # NoStats /\ Len(stat_trades) > 0) =>
        LET n == Len(stat_trades)
        IN  /\ SameQuot(stats.std.sqrt_of, Quot(SquaredDeviations, n * n * n))
            /\ TStatFromStd

\* C34 - Standard deviation: the std of compute_stats is the sample standard
\* deviation of the P&L values, the root of the sum of squared deviations
\* from the mean divided by n - 1, and 0 for a single trade; t_stat is
\* mean / (std / sqrt(n)) for that value, and 0 when std is 0.
C34_StandardDeviation ==
    (stats # NoStats /\ Len(stat_trades) > 0) =>
        LET n == Len(stat_trades)
        IN  /\ n > 1 =>
                  SameQuot(stats.std.sqrt_of,
                           Quot(SquaredDeviations, n * n * (n - 1)))
            /\ n = 1 => IsZero(stats.std.sqrt_of)
            /\ TStatFromStd
            /\ IsZero(stats.std.sqrt_of) => stats.t_stat.sign = 0

\* compute_stats has answered for P&L 15 and -5: the deviations are 10 and
\* -10, the sample variance is 200 and t_stat^2 = 25 * 2 / 200
C34_Witness ==
    /\ stats # NoStats
    /\ Pnls = <<15, -5>>
    /\ SameQuot(stats.std.sqrt_of, Quot(200, 1))
    /\ stats.t_stat.sign = 1
    /\ SameQuot(stats.t_stat.sqrt_of, Quot(1, 4))


\* The TradeRecords with an outcome, and those won
ClosedRecords ==
    {i \in 1..Len(bot.trades) : bot.trades[i].outcome \in {"won", "lost"}}
WonRecords == {i \in 1..Len(bot.trades) : bot.trades[i].outcome = "won"}

\* The pnl fields of the TradeRecords, as a list
RecordPnls == [i \in 1..Len(bot.trades) |-> bot.trades[i].pnl]

\* C35 - BotState accounting invariant: wins + losses is the number of
\* TradeRecords whose outcome is won or lost, wins is the number of those
\* won, total_pnl is the sum of the pnl of those records, and a record that
\* was cancelled or is still pending has no pnl and is counted nowhere.
C35_Accounting ==
    /\ bot.wins + bot.losses = Cardinality(ClosedRecords)
    /\ bot.wins = Cardinality(WonRecords)
    /\ bot.total_pnl = Total(RecordPnls, ClosedRecords)
    /\ \A i \in 1..Len(bot.trades) :
          i \notin ClosedRecords =>
              bot.trades[i].outcome = "None" /\ bot.trades[i].pnl = NonePnl

\* A cancelled record is followed by a closed one
C35_Witness ==
    /\ Len(bot.trades) >= 2
    /\ bot.trades[1].outcome = "None"
    /\ 2 \in ClosedRecords
    /\ bot.current_side = "None"


\* C36 - Exit type determines outcome in live mode: every TradeRecord closed
\* with exit_type tp has outcome won and pnl > 0, every TradeRecord closed
\* with exit_type sl has outcome lost and pnl < 0, a closed record is won
\* iff its pnl is strictly positive, and a record closed at exactly its
\* entry price is lost with pnl 0.
C36_ExitTypeOutcome ==
    \A i \in ClosedRecords :
        LET rec == bot.trades[i]
        IN  /\ rec.exit_type = "tp" => rec.outcome = "won" /\ rec.pnl > 0
            /\ rec.exit_type = "sl" => rec.outcome = "lost" /\ rec.pnl < 0
            /\ rec.outcome = "won" <=> rec.pnl > 0
            /\ rec.exit_price = rec.entry_price =>
                  rec.outcome = "lost" /\ rec.pnl = 0

\* A record closed by a deadline exit at exactly its entry price
C36_Witness ==
    \E i \in ClosedRecords :
        /\ bot.trades[i].exit_type = "deadline"
        /\ bot.trades[i].exit_price = bot.trades[i].entry_price
        /\ bot.trades[i].outcome = "lost"


\* The position open is the one of the last signal and of the last record
PositionMatchesSignal ==
    bot.current_side # "None" =>
        /\ strat_state.signal_fired
        /\ strat_state.last_signal # NoSignal
        /\ strat_state.last_signal.side = bot.current_side
        /\ strat_state.last_signal.period_ts = strat_state.period_ts
        /\ strat_state.period_ts = last_period_ts
        /\ Len(bot.trades) > 0
        /\ LastTrade.outcome = "None"
        /\ LastTrade.pnl = NonePnl
        /\ LastTrade.side = bot.current_side
        /\ LastTrade.period_ts = strat_state.period_ts

\* C37 - Position/signal consistency: in every state of a single bot_loop an
\* open position implies that signal_fired is set, that last_signal is a
\* signal of the position's side and of the period the loop is in, and that
\* the last TradeRecord is pending with the same side and period; and an
\* iteration that consults check_exit does so without a period change, with
\* a last_signal of the period the feed reports.
C37_PositionSignalConsistency ==
    /\ []PositionMatchesSignal
    /\ [][ (Tick /\ tick_log'.exit_checked)
           => /\ ~ tick_log'.period_changed
              /\ strat_state.last_signal # NoSignal
              /\ strat_state.last_signal.side = bot.current_side
              /\ strat_state.last_signal.period_ts = state.period_start_ts ]_vars

\* check_exit was consulted for a position of the second period of the run
\* and left it open
C37_Witness ==
    /\ tick_log.exit_checked
    /\ tick_log.exit_type = "none"
    /\ bot.current_side # "None"
    /\ Len(bot.trades) = 2
    /\ bot.trades[1].period_ts < LastTrade.period_ts
    /\ strat_state.last_signal.period_ts = LastTrade.period_ts


\* The series of the call has prices in [0, 1] and the entry price is in (0, 1)
SimInDomain ==
    /\ \A i \in 1..Len(sim.prices_up) :
          sim.prices_up[i].p >= 0 /\ sim.prices_up[i].p <= ONE
    /\ sim.entry_price > 0
    /\ sim.entry_price < ONE

\* C38 - Bounded outcomes: for a series with prices in [0, 1] and an entry
\* price in (0, 1), simulate_exit returns one outcome whose exit_type is one
\* of tp, sl, deadline, settlement, eod, no_data, whose exit_price lies in
\* [0, 1], whose pnl is exit_price - entry_price and so lies in
\* [-entry_price, 1 - entry_price]; a take-profit target above 1 or a
\* stop-loss target below 0 is never reported as hit.
C38_BoundedOutcomes ==
    (sim_out # NoOut /\ SimInDomain) =>
        /\ sim_out = simulate_exit(sim)
        /\ sim_out.exit_type \in {"tp", "sl", "deadline", "settlement", "eod", "no_data"}
        /\ sim_out.exit_price >= 0
        /\ sim_out.exit_price <= ONE
        /\ sim_out.pnl = sim_out.exit_price - sim.entry_price
        /\ sim_out.pnl >= - sim.entry_price
        /\ sim_out.pnl <= ONE - sim.entry_price
        /\ sim.entry_price + sim.tp_delta > ONE => sim_out.exit_type # "tp"
        /\ sim.entry_price - sim.sl_delta < 0 => sim_out.exit_type # "sl"

\* A call with both targets out of [0, 1] walked over a sample at price 1 and
\* a sample at price 0 after the entry and ended at the deadline
C38_Witness ==
    /\ sim_out # NoOut
    /\ SimInDomain
    /\ sim.entry_price + sim.tp_delta > ONE
    /\ sim.entry_price - sim.sl_delta < 0
    /\ Len(sim.prices_up) = 2
    /\ sim.prices_up[1].t - sim.period_start > sim.entry_minute + DEAD_ZONE
    /\ sim.prices_up[1].p \in {0, ONE}
    /\ sim.prices_up[2].p = ONE - sim.prices_up[1].p
    /\ sim_out.exit_type = "deadline"
    /\ sim_out.exit_minute = sim.prices_up[2].t - sim.period_start


\* Distance of stored snapshot k from the target of the call
LookupDist(k) == Abs(strat_state.snapshots[k].minute - lookup.target_minute)

\* The stored snapshots within the tolerance of the call
LookupWithin ==
    {k \in 1..Len(strat_state.snapshots) : LookupDist(k) <= lookup.tolerance}

\* Those of them at minimal distance from the target
LookupNearest ==
    {k \in LookupWithin : \A j \in LookupWithin : LookupDist(k) <= LookupDist(j)}

\* The one added last of a non-empty set of snapshots
LastAdded(K) == CHOOSE k \in K : \A j \in K : j <= k

\* C39 - Snapshot lookup: get_price_at(target, tolerance) returns None iff
\* no stored snapshot has |minute - target| <= tolerance, and otherwise the
\* price of a snapshot at minimal distance from the target; of several
\* snapshots at the same minimal distance the most recently added one is
\* returned.
C39_AsStated ==
    lookup.called =>
        /\ lookup.result = None <=> LookupWithin = {}
        /\ LookupWithin # {} =>
              lookup.result = strat_state.snapshots[LastAdded(LookupNearest)].price_up


\* The one added first of a non-empty set of snapshots
FirstAdded(K) == CHOOSE k \in K : \A j \in K : k <= j

\* C39 (amended) - get_price_at(target, tolerance) returns None iff no stored
\* snapshot has |minute - target| <= tolerance, and otherwise the price of a
\* snapshot at minimal distance from the target; of several snapshots at the
\* same minimal distance the one added first is returned.
C39_SnapshotLookup ==
    lookup.called =>
        /\ lookup.result = None <=> LookupWithin = {}
        /\ LookupWithin # {} =>
              lookup.result = strat_state.snapshots[FirstAdded(LookupNearest)].price_up

\* A call that found two snapshots of different prices at the same minimal
\* distance from the target, and snapshots out of the tolerance besides
C39_Witness ==
    /\ lookup.called
    /\ lookup.result # None
    /\ \E j, k \in LookupNearest :
          /\ j < k
          /\ strat_state.snapshots[j].price_up # strat_state.snapshots[k].price_up
          /\ lookup.result = strat_state.snapshots[j].price_up
    /\ LookupWithin # 1..Len(strat_state.snapshots)

====
